---- MODULE Spec2Model ----
(***************************************************************************)
(* Verification model of the sanitizer runtime's memory-safety allocator:  *)
(* the size-class map, the size-class (primary) allocator with its local   *)
(* caches, the large mmap (secondary) allocator, the combined allocator,   *)
(* the error-report entry point, and the redzone/shadow protocol.          *)
(*                                                                         *)
(* uptr values are 64-bit in the source.  Every quantity the model computes *)
(* stays far below 2^31 except the huge request sizes used to make an      *)
(* allocation fail; those are represented by their two's-complement        *)
(* reading (2^64 - k is written -k), for which + and - agree with          *)
(* arithmetic modulo 2^64 and ULess/ULeq are the unsigned comparisons.     *)
(***************************************************************************)
EXTENDS Integers, Sequences, FiniteSets, TLC

(***************************************************************************)
(* Bounds of the model.                                                    *)
(***************************************************************************)
\* every size 1..MaxDenseSize is an input of the size-class specification
MaxDenseSize == 600
\* sizes within MaxDelta of every class size are inputs as well
MaxDelta == 2

VARIABLES
  sc_map,        \* size-class specification: name of the map under test
  sc_arg,        \* its input: a size or a class id
  sc_pc,         \* "size_in" | "class_in" | "classified" | "sized"
  sc_class_id,   \* ClassID(sc_arg) after Classify
  sc_size,       \* Size(...) result
  sc_class_id2   \* ClassID(sc_size)

scVars == <<sc_map, sc_arg, sc_pc, sc_class_id, sc_size, sc_class_id2>>

VARIABLES
  shadow,        \* shadow memory: granule index -> shadow byte
  hp_chunks,     \* chunk metadata per slot of the modelled size class
  hp_free_list,  \* the backing region's free list of slots
  hp_batch,      \* quarantine: per-thread local batch (oldest first)
  hp_global,     \* quarantine: global queue (oldest first)
  hp_flags,      \* configuration options that steer Deallocate
  hp_report,     \* the last structured bug record, or NoReport
  hp_dead,       \* TRUE once a fatal report terminated the process
  hp_freed       \* history: the slot's pointer was passed to a Deallocate
                 \* that accepted it, and no Allocate returned it since

hpVars == <<shadow, hp_chunks, hp_free_list, hp_batch, hp_global, hp_flags,
            hp_report, hp_dead, hp_freed>>

VARIABLES
  num_calls,     \* the static call counter of __asan_report_error
  rp_pc,         \* per thread: position in client code / the report entry
  rp_fault,      \* per thread: the arguments of its current report call
  rp_record,     \* the bug record of the report in progress, or NoReport
  rp_reports,    \* history: number of reports started
  rp_passed,     \* history: threads that passed the guard
  rp_resumed,    \* history: threads that ran client code after a report call
  rp_calls,      \* history: number of calls of the report entry
  rp_exited      \* TRUE once the process has exited

rpVars == <<num_calls, rp_pc, rp_fault, rp_record, rp_reports, rp_passed,
            rp_resumed, rp_calls, rp_exited>>

VARIABLES
  al_meta_size,       \* the template argument kMetadataSize
  al_free_list,       \* RegionInfo::free_list of the modelled class
  al_allocated_user,  \* RegionInfo::allocated_user
  al_mapped_user,     \* RegionInfo::mapped_user
  al_allocated_meta,  \* RegionInfo::allocated_meta
  al_mapped_meta,     \* RegionInfo::mapped_meta
  al_mutex,           \* RegionInfo::mutex: the holding thread, 0 if free
  al_cache,           \* per thread: its cache's free list of the class
  al_list,            \* LargeMmapAllocator::list_, head first
  al_large_mutex,     \* LargeMmapAllocator::mutex_: the holder, 0 if free
  al_mapped,          \* the mappings made by the large allocator
  al_pc,              \* per thread: position inside the allocator
  al_call,            \* per thread: the call in progress
  al_owned,           \* per thread: pointers the caller holds
  al_failed,          \* history: old pointers of Reallocate calls that
                      \* returned null
  al_ops,             \* history: number of calls made
  al_trip             \* the allocate-N-free-N round trip being observed

alVars == <<al_meta_size, al_free_list, al_allocated_user, al_mapped_user,
            al_allocated_meta, al_mapped_meta, al_mutex, al_cache, al_list,
            al_large_mutex, al_mapped, al_pc, al_call,
            al_owned, al_failed, al_ops, al_trip>>

VARIABLES
  fk_flags,          \* FakeStack flags: per (class_id, pos) 0 or 1
  fk_real_stack,     \* FakeFrame::real_stack of each slot
  fk_hint_position,  \* hint_position_ per class
  fk_needs_gc,       \* needs_gc_
  fk_mask,           \* allocated_from_size_class_mask_, as a set of classes
  fk_shadow,         \* shadow bytes of the fake stack's frames, by granule
  fk_stack,          \* the thread's live instrumented frames, outermost first
  fk_last,           \* history: per slot the last operation and its size
  fk_dead,           \* TRUE once a CHECK failed
  fk_ops             \* history: number of calls made

fkVars == <<fk_flags, fk_real_stack, fk_hint_position, fk_needs_gc, fk_mask,
            fk_shadow, fk_stack, fk_last, fk_dead, fk_ops>>

VARIABLES
  ps_shadow,   \* shadow bytes of a small tracked range, by granule
  ps_before,   \* the shadow before the poisoning
  ps_pc,       \* "idle" | "poisoned" | "done"
  ps_range,    \* the range and the value of the round trip
  ps_rounds    \* history: number of round trips started

psVars == <<ps_shadow, ps_before, ps_pc, ps_range, ps_rounds>>

VARIABLES
  rg_ver,             \* the header the Region is taken from
  rg_map,             \* the template argument SizeClassMap
  rg_class,           \* the class of the Region
  rg_meta_size,       \* the template argument kMetadataSize
  rg_free_list,       \* RegionInfo::free_list, chunk offsets, front first
  rg_allocated_user,  \* RegionInfo::allocated_user
  rg_mapped_user,     \* RegionInfo::mapped_user
  rg_allocated_meta,  \* RegionInfo::allocated_meta
  rg_mapped_meta,     \* RegionInfo::mapped_meta
  rg_pc,              \* "run" | "died"
  rg_out,             \* the chunks the last call handed out
  rg_max_end,         \* history: the highest end of a chunk handed out
  rg_calls            \* history: number of calls made

rgVars == <<rg_ver, rg_map, rg_class, rg_meta_size, rg_free_list,
            rg_allocated_user, rg_mapped_user, rg_allocated_meta,
            rg_mapped_meta, rg_pc, rg_out, rg_max_end, rg_calls>>

VARIABLES
  cb_map,        \* the template argument SizeClassMap of the primary
  cb_pc,         \* "idle" | "allocated" | "freed"
  cb_size,       \* the size of the request
  cb_alignment,  \* the alignment of the request
  cb_res,        \* the pointer Allocate returned
  cb_from,       \* the backend that produced it
  cb_class,      \* the class that served it (primary)
  cb_checked,    \* Allocate's CHECK_EQ on the alignment held
  cb_to,         \* the backend Deallocate released it to
  cb_to_class    \* the class Deallocate released it to (primary)

cbVars == <<cb_map, cb_pc, cb_size, cb_alignment, cb_res, cb_from,
            cb_class, cb_checked, cb_to, cb_to_class>>

VARIABLES
  cl_shadow,  \* shadow bytes of the granules around the access
  cl_fault,   \* addr and access_size of the reported access
  cl_byte,    \* the shadow byte the classifier selected
  cl_kind,    \* bug_descr
  cl_pc       \* "idle" | "done"

clVars == <<cl_shadow, cl_fault, cl_byte, cl_kind, cl_pc>>

VARIABLES
  lc_free_list,  \* RegionInfo::free_list of the class, front first
  lc_carved,     \* number of chunks carved out of the Region
  lc_cache,      \* per thread: free_lists_[class_id] of its cache
  lc_hold,       \* per chunk: how many callers hold it
  lc_pc,         \* per thread: "idle" | "bulk" | "pop" | "drain"
  lc_drained,    \* history: the last DrainHalf, the length it found and
                 \* the number of chunks it moved
  lc_ops         \* history: number of calls made

lcVars == <<lc_free_list, lc_carved, lc_cache, lc_hold, lc_pc, lc_drained,
            lc_ops>>

VARIABLES
  md_map,        \* the template argument SizeClassMap
  md_class,      \* the class of the Region
  md_meta_size,  \* the template argument kMetadataSize
  md_slots,      \* the slot indices of two chunks of the Region
  md_meta,       \* per chunk: the distance of GetMetaData(p) from the
                 \* Region's end, in bytes
  md_pc          \* "idle" | "done"

mdVars == <<md_map, md_class, md_meta_size, md_slots, md_meta, md_pc>>

VARIABLES
  lg_mapped,  \* the mappings MmapOrDie made and UnmapOrDie has not released
  lg_hdr,     \* the Header read at each page address
  lg_list_,   \* LargeMmapAllocator::list_
  lg_mutex_,  \* LargeMmapAllocator::mutex_: the holder, 0 if free
  lg_pc,      \* per thread: position inside Allocate / Deallocate
  lg_call,    \* per thread: the locals of the call in progress
  lg_owned,   \* per thread: pointers Allocate returned to it that it has
              \* not yet passed to Deallocate
  lg_linked,  \* history: user pointers whose Allocate has linked the header
              \* and whose Deallocate has not yet unlinked it
  lg_ops      \* history: number of calls made

lgVars == <<lg_mapped, lg_hdr, lg_list_, lg_mutex_, lg_pc, lg_call, lg_owned, lg_linked, lg_ops>>

VARIABLES
  sg_flags,          \* FakeStack flags: per (class_id, pos) 0 or 1
  sg_real_stack,     \* FakeFrame::real_stack of each slot
  sg_hint_position,  \* hint_position_ per class
  sg_needs_gc,       \* needs_gc_
  sg_mask,           \* allocated_from_size_class_mask_, as a set of classes
  sg_stack,          \* the thread's live instrumented frames
  sg_hstack,         \* the live instrumented frames of the signal handler
  sg_pc,             \* the thread's position inside Allocate
  sg_loc,            \* the locals of the thread's Allocate
  sg_in_handler,     \* TRUE while a signal handler runs on the thread
  sg_held,           \* history: slots an Allocate returned that neither
                     \* Deallocate nor GC has released since
  sg_twice,          \* history: an Allocate returned a slot of sg_held
  sg_dead,           \* TRUE once a CHECK failed
  sg_ops             \* history: number of calls made

sgVars == <<sg_flags, sg_real_stack, sg_hint_position, sg_needs_gc, sg_mask, sg_stack, sg_hstack, sg_pc, sg_loc, sg_in_handler, sg_held, sg_twice, sg_dead, sg_ops>>

VARIABLES
  tl_free_list,  \* RegionInfo::free_list of the class, front first
  tl_carved,     \* number of chunks carved out of the Region
  tl_cache,      \* free_lists_[class_id] of the one static cache
  tl_pc,         \* per thread: position inside malloc / free
  tl_res,        \* per thread: the node front() returned
  tl_owned,      \* per thread: the pointers malloc returned to it and it
                 \* has not freed
  tl_users,      \* history: the threads that read or modified the cache
  tl_dead,       \* TRUE once a CHECK failed
  tl_ops         \* history: number of calls made

tlVars == <<tl_free_list, tl_carved, tl_cache, tl_pc, tl_res, tl_owned, tl_users, tl_dead, tl_ops>>

VARIABLES
  qr_cap,     \* the soft per-thread cap, in bytes
  qr_budget,  \* the byte budget of the global queue
  qr_state,   \* per chunk: "Allocated" | "Quarantined" | "Recycled"
  qr_batch,   \* per thread: its local batch, oldest first
  qr_global,  \* the global queue, oldest first
  qr_mutex,   \* the lock of the global queue: the holder, 0 if free
  qr_pc,      \* per thread: "idle" | "splice" | "locked" | "evict"
  qr_ops      \* history: number of Put and Drain calls made

qrVars == <<qr_cap, qr_budget, qr_state, qr_batch, qr_global, qr_mutex, qr_pc, qr_ops>>

VARIABLES
  di_num_calls,  \* the static num_calls of Die
  di_flags,      \* FLAG_unmap_shadow_on_exit, FLAG_abort_on_error and what
                 \* the death callback does, "none" if there is none
  di_pc,         \* per thread: "client" | "check_failed" | "enter" | "spin"
                 \* | "unmap" | "callback" | "exit"
  di_first,      \* history: the thread whose call of Die was the first, or 0
  di_reentered,  \* history: threads that called Die from inside Die
  di_exited      \* "no", or how the process ended: "abort" | "exit"

diVars == <<di_num_calls, di_flags, di_pc, di_first, di_reentered, di_exited>>

vars == <<scVars, hpVars, rpVars, alVars, fkVars, psVars, rgVars, cbVars, clVars, lcVars, mdVars, lgVars, sgVars, tlVars, qrVars, diVars>>

(***************************************************************************)
(* Unsigned arithmetic on the two's-complement representation.             *)
(***************************************************************************)
ULess(a, b) ==
  IF (a >= 0) = (b >= 0) THEN a < b ELSE a >= 0

ULeq(a, b) == a = b \/ ULess(a, b)

Min(a, b) == IF ULess(a, b) THEN a ELSE b

\* (size + boundary - 1) & ~(boundary - 1), boundary a power of two
RoundUpTo(size, boundary) ==
  ((size + boundary - 1) \div boundary) * boundary

(***************************************************************************)
(* SplineSizeClassMap and its two instantiations.                          *)
(***************************************************************************)
DefaultSizeClassMap ==
  [l0 |-> 16, l1 |-> 512, l2 |-> 4096, l3 |-> 32768, l4 |-> 262144,
   l5 |-> 2097152,
   s0 |-> 16, s1 |-> 64, s2 |-> 512, s3 |-> 4096, s4 |-> 32768,
   c0 |-> 256, c1 |-> 64, c2 |-> 16, c3 |-> 4, c4 |-> 1]

CompactSizeClassMap ==
  [l0 |-> 8, l1 |-> 16, l2 |-> 128, l3 |-> 256, l4 |-> 4096, l5 |-> 32768,
   s0 |-> 8, s1 |-> 16, s2 |-> 128, s3 |-> 256, s4 |-> 4096,
   c0 |-> 256, c1 |-> 64, c2 |-> 16, c3 |-> 4, c4 |-> 1]

u0(m) == 0 + (m.l1 - m.l0) \div m.s0
u1(m) == u0(m) + (m.l2 - m.l1) \div m.s1
u2(m) == u1(m) + (m.l3 - m.l2) \div m.s2
u3(m) == u2(m) + (m.l4 - m.l3) \div m.s3
u4(m) == u3(m) + (m.l5 - m.l4) \div m.s4

kNumClasses(m) == u4(m) + 1
kMaxSize(m) == m.l5
kMinSize(m) == m.l0

\* copy-paste slip: the second segment advances with the first segment's step
Size_WrongStep(m, class_id) ==
  IF class_id <= u0(m) THEN m.l0 + m.s0 * (class_id - 0)
  ELSE IF class_id <= u1(m) THEN m.l1 + m.s0 * (class_id - u0(m))
  ELSE IF class_id <= u2(m) THEN m.l2 + m.s2 * (class_id - u1(m))
  ELSE IF class_id <= u3(m) THEN m.l3 + m.s3 * (class_id - u2(m))
  ELSE IF class_id <= u4(m) THEN m.l4 + m.s4 * (class_id - u3(m))
  ELSE 0

Size(m, class_id) ==
  IF class_id <= u0(m) THEN m.l0 + m.s0 * (class_id - 0)
  ELSE IF class_id <= u1(m) THEN m.l1 + m.s1 * (class_id - u0(m))
  ELSE IF class_id <= u2(m) THEN m.l2 + m.s2 * (class_id - u1(m))
  ELSE IF class_id <= u3(m) THEN m.l3 + m.s3 * (class_id - u2(m))
  ELSE IF class_id <= u4(m) THEN m.l4 + m.s4 * (class_id - u3(m))
  ELSE 0

\* slip: the division rounds down (the "+ s - 1" is missing)
ClassID_RoundDown(m, size) ==
  IF size <= m.l1 THEN 0 + (size - m.l0) \div m.s0
  ELSE IF size <= m.l2 THEN u0(m) + (size - m.l1) \div m.s1
  ELSE IF size <= m.l3 THEN u1(m) + (size - m.l2) \div m.s2
  ELSE IF size <= m.l4 THEN u2(m) + (size - m.l3) \div m.s3
  ELSE IF size <= m.l5 THEN u3(m) + (size - m.l4) \div m.s4
  ELSE 0

\* for 1 <= size no intermediate value of the source's unsigned expression
\* (size - l + s - 1) is negative, so no wrap-around occurs
ClassID(m, size) ==
  IF size <= m.l1 THEN 0 + (size - m.l0 + m.s0 - 1) \div m.s0
  ELSE IF size <= m.l2 THEN u0(m) + (size - m.l1 + m.s1 - 1) \div m.s1
  ELSE IF size <= m.l3 THEN u1(m) + (size - m.l2 + m.s2 - 1) \div m.s2
  ELSE IF size <= m.l4 THEN u2(m) + (size - m.l3 + m.s3 - 1) \div m.s3
  ELSE IF size <= m.l5 THEN u3(m) + (size - m.l4 + m.s4 - 1) \div m.s4
  ELSE 0

MaxCached(m, class_id) ==
  IF class_id <= u0(m) THEN m.c0
  ELSE IF class_id <= u1(m) THEN m.c1
  ELSE IF class_id <= u2(m) THEN m.c2
  ELSE IF class_id <= u3(m) THEN m.c3
  ELSE IF class_id <= u4(m) THEN m.c4
  ELSE 0

MapNamed(name) ==
  IF name = "Default" THEN DefaultSizeClassMap ELSE CompactSizeClassMap

\* the size-class specification at rest, for the other specifications
ScParked ==
  /\ sc_map = "Default"
  /\ sc_arg = 0
  /\ sc_pc = "parked"
  /\ sc_class_id = 0
  /\ sc_size = 0
  /\ sc_class_id2 = 0

(***************************************************************************)
(* Shadow memory and the classifier of __asan_report_error.                *)
(***************************************************************************)
SHADOW_GRANULARITY == 8

kAsanHeapLeftRedzoneMagic == 250       \* 0xfa
kAsanHeapRightRedzoneMagic == 251      \* 0xfb
kAsanHeapFreeMagic == 253              \* 0xfd
kAsanStackLeftRedzoneMagic == 241      \* 0xf1
kAsanStackMidRedzoneMagic == 242       \* 0xf2
kAsanStackRightRedzoneMagic == 243     \* 0xf3
kAsanStackPartialRedzoneMagic == 244   \* 0xf4
kAsanStackAfterReturnMagic == 245      \* 0xf5
kAsanUserPoisonedMemoryMagic == 247    \* 0xf7
kAsanGlobalRedzoneMagic == 249         \* 0xf9
kAsanInternalHeapMagic == 254          \* 0xfe

\* redzone option: a power of two, at least 32
FLAG_redzone == 32

\* the shadow byte of granule g; memory the allocator never touched reads 0
ShadowAt(sh, g) == IF g \in DOMAIN sh THEN sh[g] ELSE 0

\* MemToShadow: one shadow byte per 8-byte granule (the constant offset of
\* the mapping is not represented: shadow bytes are indexed by granule)
MemToShadow(addr) == addr \div SHADOW_GRANULARITY

\* slip: the partial-redzone test misses the upper limit "< 128", as it
\* would with a signed shadow byte compared only against 0
BugDescr_NoUpperLimit(sh, addr, access_size) ==
  LET a0 == MemToShadow(addr)
      a1 == IF ShadowAt(sh, a0) = 0 /\ access_size > SHADOW_GRANULARITY
            THEN a0 + 1 ELSE a0
      a2 == IF ShadowAt(sh, a1) > 0 THEN a1 + 1 ELSE a1
      b == ShadowAt(sh, a2)
  IN  IF b \in {kAsanHeapLeftRedzoneMagic, kAsanHeapRightRedzoneMagic}
        THEN "heap-buffer-overflow"
      ELSE IF b = kAsanHeapFreeMagic THEN "heap-use-after-free"
      ELSE IF b = kAsanStackLeftRedzoneMagic THEN "stack-buffer-underflow"
      ELSE IF b \in {kAsanStackMidRedzoneMagic, kAsanStackRightRedzoneMagic,
                     kAsanStackPartialRedzoneMagic}
        THEN "stack-buffer-overflow"
      ELSE IF b = kAsanStackAfterReturnMagic THEN "stack-use-after-return"
      ELSE IF b = kAsanUserPoisonedMemoryMagic THEN "use-after-poison"
      ELSE IF b = kAsanGlobalRedzoneMagic THEN "global-buffer-overflow"
      ELSE "unknown-crash"

\* slip: the step over a partially addressable granule is missing
BugDescr_NoPartialStep(sh, addr, access_size) ==
  LET a0 == MemToShadow(addr)
      a1 == IF ShadowAt(sh, a0) = 0 /\ access_size > SHADOW_GRANULARITY
            THEN a0 + 1 ELSE a0
      b == ShadowAt(sh, a1)
  IN  IF b \in {kAsanHeapLeftRedzoneMagic, kAsanHeapRightRedzoneMagic}
        THEN "heap-buffer-overflow"
      ELSE IF b = kAsanHeapFreeMagic THEN "heap-use-after-free"
      ELSE IF b = kAsanStackLeftRedzoneMagic THEN "stack-buffer-underflow"
      ELSE IF b \in {kAsanStackMidRedzoneMagic, kAsanStackRightRedzoneMagic,
                     kAsanStackPartialRedzoneMagic}
        THEN "stack-buffer-overflow"
      ELSE IF b = kAsanStackAfterReturnMagic THEN "stack-use-after-return"
      ELSE IF b = kAsanUserPoisonedMemoryMagic THEN "use-after-poison"
      ELSE IF b = kAsanGlobalRedzoneMagic THEN "global-buffer-overflow"
      ELSE "unknown-crash"

\* slip: the partial stack redzone has no case in the switch
BugDescr_NoPartialCase(sh, addr, access_size) ==
  LET a0 == MemToShadow(addr)
      a1 == IF ShadowAt(sh, a0) = 0 /\ access_size > SHADOW_GRANULARITY
            THEN a0 + 1 ELSE a0
      a2 == IF ShadowAt(sh, a1) > 0 /\ ShadowAt(sh, a1) < 128
            THEN a1 + 1 ELSE a1
      b == ShadowAt(sh, a2)
  IN  IF b \in {kAsanHeapLeftRedzoneMagic, kAsanHeapRightRedzoneMagic}
        THEN "heap-buffer-overflow"
      ELSE IF b = kAsanHeapFreeMagic THEN "heap-use-after-free"
      ELSE IF b = kAsanStackLeftRedzoneMagic THEN "stack-buffer-underflow"
      ELSE IF b \in {kAsanStackMidRedzoneMagic, kAsanStackRightRedzoneMagic}
        THEN "stack-buffer-overflow"
      ELSE IF b = kAsanStackAfterReturnMagic THEN "stack-use-after-return"
      ELSE IF b = kAsanUserPoisonedMemoryMagic THEN "use-after-poison"
      ELSE IF b = kAsanGlobalRedzoneMagic THEN "global-buffer-overflow"
      ELSE "unknown-crash"

\* the bug_descr computed by __asan_report_error for a tracked address
BugDescr(sh, addr, access_size) ==
  LET a0 == MemToShadow(addr)
      \* If we are accessing 16 bytes, look at the second shadow byte.
      a1 == IF ShadowAt(sh, a0) = 0 /\ access_size > SHADOW_GRANULARITY
            THEN a0 + 1 ELSE a0
      \* If we are in the partial right redzone, look at the next shadow byte.
      a2 == IF ShadowAt(sh, a1) > 0 /\ ShadowAt(sh, a1) < 128
            THEN a1 + 1 ELSE a1
      b == ShadowAt(sh, a2)
  IN  IF b \in {kAsanHeapLeftRedzoneMagic, kAsanHeapRightRedzoneMagic}
        THEN "heap-buffer-overflow"
      ELSE IF b = kAsanHeapFreeMagic THEN "heap-use-after-free"
      ELSE IF b = kAsanStackLeftRedzoneMagic THEN "stack-buffer-underflow"
      ELSE IF b \in {kAsanStackMidRedzoneMagic, kAsanStackRightRedzoneMagic,
                     kAsanStackPartialRedzoneMagic}
        THEN "stack-buffer-overflow"
      ELSE IF b = kAsanStackAfterReturnMagic THEN "stack-use-after-return"
      ELSE IF b = kAsanUserPoisonedMemoryMagic THEN "use-after-poison"
      ELSE IF b = kAsanGlobalRedzoneMagic THEN "global-buffer-overflow"
      ELSE "unknown-crash"

(***************************************************************************)
(* The redzone manager over one size class of the backing allocator, with  *)
(* its quarantine.  asan_allocator.cc and asan_poisoning.cc are not part   *)
(* of the sources at hand; these operations follow the design document.    *)
(***************************************************************************)
\* slots of the modelled size class
NumSlots == 2
\* client threads of the heap specification
NumHeapThreads == 1
\* soft cap of a thread-local quarantine batch, in bytes
ThreadQuarantineCap == 80
\* quarantine_size: byte budget of the global quarantine queue
FLAG_quarantine_size == 100

HeapThreads == 1 .. NumHeapThreads
Slots == 0 .. (NumSlots - 1)
ApiTags == {"malloc", "new"}
\* the allocation requests the clients make: malloc(10) and new of 8 bytes
Requests ==
  {[size |-> 10, api_tag |-> "malloc"], [size |-> 8, api_tag |-> "new"]}
\* CaptureStackTrace: the id of the trace of the call site, one site per
\* entry point (malloc, operator new, free, operator delete)
AllocStackId(api_tag) == IF api_tag = "malloc" THEN 1 ELSE 2
FreeStackId(api_tag) == IF api_tag = "malloc" THEN 3 ELSE 4
\* the accesses the clients make: a 1-byte write and a 16-byte read
Accesses == {[size |-> 1, is_write |-> TRUE], [size |-> 16, is_write |-> FALSE]}

PaddedSize(user_size) == FLAG_redzone + user_size + FLAG_redzone

\* the size class that serves every request of Requests
HeapClassId == ClassID(DefaultSizeClassMap, PaddedSize(10))
SlotSize == Size(DefaultSizeClassMap, HeapClassId)

ChunkBeg(slot) == slot * SlotSize
UserBeg(slot) == ChunkBeg(slot) + FLAG_redzone
MemBytes == NumSlots * SlotSize
Granules == 0 .. (MemBytes \div SHADOW_GRANULARITY - 1)
SlotOf(addr) == addr \div SlotSize

NoReport == [kind |-> "none"]
UnusedChunk ==
  [state |-> "Unused", requested_size |-> 0, actual_size |-> 0,
   alloc_stack |-> 0, free_stack |-> 0, api_tag |-> "none"]
\* a chunk returned to the allocator loses its metadata
RecycledChunk ==
  [state |-> "Recycled", requested_size |-> 0, actual_size |-> 0,
   alloc_stack |-> 0, free_stack |-> 0, api_tag |-> "none"]

\* slip: a granule the range covers in part is left as it was
PoisonRange_NoPartial(sh, addr, size, value) ==
  [g \in DOMAIN sh |->
     LET lo == g * SHADOW_GRANULARITY
     IN  IF lo >= addr /\ lo + SHADOW_GRANULARITY <= addr + size THEN value
         ELSE sh[g]]

\* PoisonRange(addr, size, value), addr granule-aligned: every full granule
\* of [addr, addr+size) gets value; a trailing partial granule gets the
\* count of its valid bytes unless value denotes a fully invalid state
PoisonRange(sh, addr, size, value) ==
  [g \in DOMAIN sh |->
     LET lo == g * SHADOW_GRANULARITY
     IN  IF lo >= addr /\ lo + SHADOW_GRANULARITY <= addr + size THEN value
         ELSE IF lo >= addr /\ lo < addr + size
           THEN (IF value >= 128 THEN value ELSE addr + size - lo)
         ELSE sh[g]]

\* the inline check of an access: the shadow byte of addr and, for an
\* access wider than one granule, the next shadow byte too
IsPoisoned(sh, addr, access_size) ==
  LET b == ShadowAt(sh, MemToShadow(addr))
      last == (addr % SHADOW_GRANULARITY)
              + (IF access_size < SHADOW_GRANULARITY THEN access_size
                 ELSE SHADOW_GRANULARITY) - 1
  IN  \/ b >= 128
      \/ b > 0 /\ last >= b
      \/ access_size > SHADOW_GRANULARITY
           /\ ShadowAt(sh, MemToShadow(addr) + 1) # 0

\* the structured bug record of an invalid access
AccessReport(sh, chunks, addr, access_size, is_write) ==
  LET slot == SlotOf(addr)
  IN  [kind |-> BugDescr(sh, addr, access_size),
       addr |-> addr, access_size |-> access_size, is_write |-> is_write,
       region_size |-> chunks[slot].requested_size,
       offset |-> addr - UserBeg(slot),
       alloc_stack |-> chunks[slot].alloc_stack,
       free_stack |-> chunks[slot].free_stack]

FreeReport(kind, chunks, slot) ==
  [kind |-> kind, addr |-> UserBeg(slot), access_size |-> 0,
   is_write |-> FALSE,
   region_size |-> chunks[slot].requested_size, offset |-> 0,
   alloc_stack |-> chunks[slot].alloc_stack,
   free_stack |-> chunks[slot].free_stack]

\* bytes held by a sequence of quarantined slots
QuarantineBytes(q) == Len(q) * SlotSize

\* the entries the global queue evicts, oldest first, to get back within
\* its byte budget
RECURSIVE EvictCount(_)
EvictCount(q) ==
  IF q # <<>> /\ QuarantineBytes(q) > FLAG_quarantine_size
  THEN 1 + EvictCount(Tail(q)) ELSE 0

\* push_front of every element of q, first element first
RECURSIVE PushFrontAll(_, _)
PushFrontAll(list, q) ==
  IF q = <<>> THEN list ELSE PushFrontAll(<<Head(q)>> \o list, Tail(q))

\* threads that may report
NumReportThreads == 2
\* cap on the number of calls of the report entry
MaxCalls == 3

ReportThreads == 1 .. NumReportThreads

LiveSlot == NumSlots - 1
FreedSlot == NumSlots - 2

\* the invalid accesses the threads report: one past a live 10-byte
\* chunk, the first byte of a freed chunk, and an address outside the
\* tracked range
Faults ==
  {[addr |-> UserBeg(LiveSlot) + 10, is_write |-> TRUE, access_size |-> 1],
   [addr |-> UserBeg(FreedSlot), is_write |-> FALSE, access_size |-> 1],
   [addr |-> MemBytes + 64, is_write |-> TRUE, access_size |-> 1]}

NoFault == [addr |-> 0, is_write |-> FALSE, access_size |-> 0]

\* __sync_add_and_fetch(a, 1): the new value is stored and returned
\* slip: the value before the increment is returned (fetch-and-add)
AtomicInc_ReturnsOld(a) == [val |-> a + 1, ret |-> a]

AtomicInc(a) == [val |-> a + 1, ret |-> a + 1]

RpParked ==
  /\ num_calls = 0
  /\ rp_pc = [t \in ReportThreads |-> "parked"]
  /\ rp_fault = [t \in ReportThreads |-> NoFault]
  /\ rp_record = NoReport
  /\ rp_reports = 0
  /\ rp_passed = {}
  /\ rp_resumed = {}
  /\ rp_calls = 0
  /\ rp_exited = FALSE

(***************************************************************************)
(* The combined allocator as the malloc replacement instantiates it:       *)
(* SizeClassAllocator64 over CompactSizeClassMap, SizeClassAllocatorLocal- *)
(* Cache, LargeMmapAllocator.  One size class of the primary is modelled.  *)
(* A pointer is a record: the space it lies in and its chunk index in the  *)
(* Region (primary) or the mapping it begins (large allocator).            *)
(***************************************************************************)
\* threads that call the allocator
NumAllocThreads == 1
\* cap on the number of malloc/free/realloc calls outside the round trip
MaxAllocOps == 2
\* the largest N of the observed round trip
MaxTripN == 2

AllocThreads == 1 .. NumAllocThreads

kPopulateSize == 262144
kUserMapSize == 4194304
kMetaMapSize == 1048576
\* kSpaceSize / 1024 and kRegionSize / 1024 (kRegionSize is 2^35)
kSpaceSizeKb == 1073741824
kRegionSizeKb == kSpaceSizeKb \div kNumClasses(CompactSizeClassMap)
kPageSize == 4096

\* the modelled class: the largest one, 32768 bytes, MaxCached 1
kClassId == ClassID(CompactSizeClassMap, kMaxSize(CompactSizeClassMap))
kClassSize == Size(CompactSizeClassMap, kClassId)

\* request sizes: the modelled class, one byte more (large allocator),
\* 2^64 - 8 and 2^64 - 5000 (written -8 and -5000)
AllocSizes == {kClassSize, kClassSize + 1}
ReallocSizes == {kClassSize, 0 - 8, 0 - 5000}
kAlignment == 8

NullPtr == [space |-> "null", idx |-> 0]
PrimaryPtr(i) == [space |-> "primary", idx |-> i]
LargePtr(m) == [space |-> "mmap", idx |-> m]

NoCall == [op |-> "none", p |-> NullPtr, size |-> 0, res |-> NullPtr]
NoTrip == [phase |-> "none", t |-> 0, todo |-> 0, held |-> {},
           list0 |-> 0, cache0 |-> 0, carved0 |-> 0]

\* p / kSpaceSize == kSpaceBeg / kSpaceSize
PointerIsMine(p) == p.space = "primary"

CanAllocate(size, alignment) ==
  /\ ULeq(size, kMaxSize(CompactSizeClassMap))
  /\ ULeq(alignment, kMaxSize(CompactSizeClassMap))

RoundUpMapSize(size) == RoundUpTo(size, kPageSize) + kPageSize

\* IntrusiveList: the elements of a sequence as a set
ListItems(l) == {l[i] : i \in 1 .. Len(l)}

RECURSIVE Reverse(_)
Reverse(l) == IF l = <<>> THEN <<>> ELSE Append(Reverse(Tail(l)), Head(l))

\* BulkMove: the lists allocate_from and allocate_to afterwards
\* slip: the moved chunks are not taken off allocate_from
BulkMove_KeepsFrom(max_count, allocate_from) ==
  IF Len(allocate_from) <= max_count
  THEN [from |-> allocate_from, to |-> allocate_from]
  ELSE [from |-> allocate_from,
        to |-> Reverse(SubSeq(allocate_from, 1, max_count))]

BulkMove(max_count, allocate_from) ==
  IF Len(allocate_from) <= max_count
  THEN [from |-> <<>>, to |-> allocate_from]
  ELSE [from |-> SubSeq(allocate_from, max_count + 1, Len(allocate_from)),
        to |-> Reverse(SubSeq(allocate_from, 1, max_count))]

\* the chunks PopulateFreeList pushes, the last pushed first
RECURSIVE Populated(_, _, _)
Populated(idx, end_idx, list) ==
  LET pushed == <<idx \div kClassSize>> \o list
  IN  IF idx + kClassSize < end_idx
      THEN Populated(idx + kClassSize, end_idx, pushed)
      ELSE pushed

\* allocated_user + allocated_meta > kRegionSize
RegionExhausted(user, meta) ==
  \/ (user + meta) \div 1024 > kRegionSizeKb
  \/ (user + meta) \div 1024 = kRegionSizeKb /\ (user + meta) % 1024 > 0

\* number of chunks carved out of the Region so far
Carved == al_allocated_user \div kClassSize

AlParked ==
  /\ al_meta_size = 0
  /\ al_free_list = <<>>
  /\ al_allocated_user = 0
  /\ al_mapped_user = 0
  /\ al_allocated_meta = 0
  /\ al_mapped_meta = 0
  /\ al_mutex = 0
  /\ al_cache = [t \in AllocThreads |-> <<>>]
  /\ al_list = <<>>
  /\ al_large_mutex = 0
  /\ al_mapped = {}
  /\ al_pc = [t \in AllocThreads |-> "parked"]
  /\ al_call = [t \in AllocThreads |-> NoCall]
  /\ al_owned = [t \in AllocThreads |-> {}]
  /\ al_failed = {}
  /\ al_ops = 0
  /\ al_trip = NoTrip

(***************************************************************************)
(* FakeStack of one thread.  asan_fake_stack.h is not part of the sources  *)
(* at hand: the layout constants follow the design and the arithmetic of   *)
(* asan_fake_stack.cc (positions are shifted by kMinStackFrameSizeLog +    *)
(* class_id, classes 0..10 exist).  Two classes are modelled, on either    *)
(* side of SetShadow's class_id <= 6 test.                                 *)
(***************************************************************************)
\* cap on the number of fake-stack calls
MaxFkOps == 5
\* cap on the depth of the instrumented call stack
MaxFkDepth == 2

kMinStackFrameSizeLog == 6
kNumberOfSizeClasses == 11
\* stack_size_log of the modelled fake stack
FkStackSizeLog == 13
FkClasses == {6, 7}
\* the real stack pointer of the outermost frame, in arbitrary units
FkStackTop == 8

BytesInSizeClass(class_id) == 2 ^ (kMinStackFrameSizeLog + class_id)
NumberOfFrames(class_id) ==
  2 ^ (FkStackSizeLog - kMinStackFrameSizeLog - class_id)
ModuloNumberOfFrames(class_id, n) == n % NumberOfFrames(class_id)

FkSlots ==
  {<<c, pos>> : c \in FkClasses, pos \in 0 .. 1} \cap
  {sl \in (FkClasses \X (0 .. 1)) : sl[2] < NumberOfFrames(sl[1])}

\* GetFrame, as an offset from the first frame of the lowest modelled class
GetFrame(class_id, pos) ==
  (2 ^ FkStackSizeLog) * (class_id - 6) + BytesInSizeClass(class_id) * pos

FkGranules == 0 .. ((2 ^ FkStackSizeLog) * Cardinality(FkClasses)) \div 8 - 1

\* the frame sizes the compiler passes for a class
FkSizes(class_id) ==
  {BytesInSizeClass(class_id), BytesInSizeClass(class_id) \div 2 + 32}

NoFkOp == [op |-> "none", size |-> 0]

FkParked ==
  /\ fk_flags = <<>>
  /\ fk_real_stack = <<>>
  /\ fk_hint_position = <<>>
  /\ fk_needs_gc = FALSE
  /\ fk_mask = {}
  /\ fk_shadow = <<>>
  /\ fk_stack = <<>>
  /\ fk_last = <<>>
  /\ fk_dead = FALSE
  /\ fk_ops = 0

(***************************************************************************)
(* Poisoning and unpoisoning of a region (asan_poisoning.cc is not part of *)
(* the sources at hand; PoisonRange follows the design).                   *)
(***************************************************************************)
\* granules of the tracked range of the poisoning specification
PsNumGranules == 3
\* cap on the number of round trips
MaxPsRounds == 1

PsGranules == 0 .. PsNumGranules - 1
PsBytes == 0 .. PsNumGranules * SHADOW_GRANULARITY - 1
NoRange == [addr |-> 0, size |-> 0, value |-> 0]

PsParked ==
  /\ ps_shadow = <<>>
  /\ ps_before = <<>>
  /\ ps_pc = "parked"
  /\ ps_range = NoRange
  /\ ps_rounds = 0

(***************************************************************************)
(* One Region of SizeClassAllocator64 under repeated refills.  Offsets and *)
(* byte counters are kept in units of kUnit bytes: every modelled class    *)
(* size and kMetadataSize is a multiple of it, and a Region of 2^32 bytes  *)
(* stays within the integers of the checker.                               *)
(***************************************************************************)
\* cap on the number of calls that take chunks from the Region
MaxBulk == 2100

kUnit == 16
\* units in one KiB
kUnitsPerKb == 1024 \div kUnit

\* SizeClassMap arguments: "compact" as the malloc replacement has it,
\* "default" the other map of the header
RgMap(name) ==
  IF name = "compact" THEN CompactSizeClassMap ELSE DefaultSizeClassMap

\* the Regions modelled: header, map and class
RgRegions ==
  {[ver |-> "allocator", map |-> "compact", class_id |-> 30],
   [ver |-> "allocator", map |-> "compact", class_id |-> 31],
   [ver |-> "allocator", map |-> "default", class_id |-> 254],
   [ver |-> "allocator", map |-> "default", class_id |-> 255],
   [ver |-> "allocator64", map |-> "default", class_id |-> 255]}

\* kRegionSize / 1024 = kSpaceSize / kNumClasses / 1024
RgRegionSizeKb(name) == kSpaceSizeKb \div kNumClasses(RgMap(name))

RgParked ==
  /\ rg_ver = "none"
  /\ rg_map = "none"
  /\ rg_class = 0
  /\ rg_meta_size = 0
  /\ rg_free_list = <<>>
  /\ rg_allocated_user = 0
  /\ rg_mapped_user = 0
  /\ rg_allocated_meta = 0
  /\ rg_mapped_meta = 0
  /\ rg_pc = "parked"
  /\ rg_out = <<>>
  /\ rg_max_end = 0
  /\ rg_calls = 0

(***************************************************************************)
(* CombinedAllocator with addresses.  An address is a record hi, lo with   *)
(* value hi * 2^30 + lo; kSpaceBeg is 0x600000000000 and kSpaceSize 2^40   *)
(* as in the malloc replacement.                                           *)
(***************************************************************************)
\* the largest chunk index a cache pops in the model
MaxChunkIdx == 3

kAddrLo == 1073741824
kSpaceBegHi == 98304
kSpaceSizeHi == kSpaceSizeKb \div 1048576

NullAddr == [hi |-> 0, lo |-> 0]

\* p + n for 0 <= n < 2^30
AddrAdd(p, n) ==
  [hi |-> p.hi + (p.lo + n) \div kAddrLo, lo |-> (p.lo + n) % kAddrLo]

\* a <= b
AddrLeq(a, b) == a.hi < b.hi \/ (a.hi = b.hi /\ a.lo <= b.lo)

CbMaps == {"compact", "default"}

CbMap(name) ==
  IF name = "compact" THEN CompactSizeClassMap ELSE DefaultSizeClassMap

\* request sizes; 2^64 - 8 and 2^64 - 5000 are written -8 and -5000
CbSizes == {0, 1, 8, 9, 24, 48, 100, 192, 1000, 1536, 4096, 5000, 32768,
            32769, 100000, 2097152, 2097153, 0 - 8, 0 - 5000}

\* powers of two
CbAlignments == {1, 8, 16, 64, 512, 4096, 8192, 65536, 4194304}

\* the addresses mmap may return: page-aligned, low in the address space,
\* just below the primary's space, inside it and just above it
CbMmapAddrs ==
  {[hi |-> h, lo |-> l] :
     h \in {1, kSpaceBegHi - 1, kSpaceBegHi, kSpaceBegHi + kSpaceSizeHi},
     l \in {0, kPageSize, kAddrLo - 3 * kPageSize}}

CbParked ==
  /\ cb_map = "none"
  /\ cb_pc = "parked"
  /\ cb_size = 0
  /\ cb_alignment = 0
  /\ cb_res = NullAddr
  /\ cb_from = "none"
  /\ cb_class = 0
  /\ cb_checked = TRUE
  /\ cb_to = "none"
  /\ cb_to_class = 0

(***************************************************************************)
(* The classifier of __asan_report_error over every shadow value of        *)
(* interest.                                                               *)
(***************************************************************************)
\* granules whose shadow is drawn freely
ClNumGranules == 2

\* shadow values: addressable, partially addressable, the magics, and
\* values that are no magic of the classifier
ClBytes ==
  {0, 3, 128,
   kAsanHeapLeftRedzoneMagic, kAsanHeapRightRedzoneMagic, kAsanHeapFreeMagic,
   kAsanStackLeftRedzoneMagic, kAsanStackMidRedzoneMagic,
   kAsanStackRightRedzoneMagic, kAsanStackPartialRedzoneMagic,
   kAsanStackAfterReturnMagic, kAsanUserPoisonedMemoryMagic,
   kAsanGlobalRedzoneMagic, kAsanInternalHeapMagic}

ClParked ==
  /\ cl_shadow = <<>>
  /\ cl_fault = NoFault
  /\ cl_byte = 0
  /\ cl_kind = "none"
  /\ cl_pc = "parked"

(***************************************************************************)
(* SizeClassAllocatorLocalCache: several threads, each with its own cache, *)
(* over the Region of the modelled class.                                  *)
(***************************************************************************)
\* threads with a cache of their own
NumCacheThreads == 2
\* cap on the number of Allocate and Deallocate calls
MaxCacheOps == 6

CacheThreads == 1 .. NumCacheThreads

NoDrain == [len |-> 0, moved |-> 0]

LcParked ==
  /\ lc_free_list = <<>>
  /\ lc_carved = 0
  /\ lc_cache = <<>>
  /\ lc_hold = <<>>
  /\ lc_pc = <<>>
  /\ lc_drained = NoDrain
  /\ lc_ops = 0

(***************************************************************************)
(* GetMetaData over the chunks of one Region.                              *)
(***************************************************************************)
\* the chunks considered are the first MdMaxSlot + 1 of the Region and
\* the first MdMaxSlot + 1 from the offset 2^32 on
MdMaxSlot == 2

\* 2^32 in units of kUnit bytes: the range of a u32 offset
kU32Units == 268435456

MdParked ==
  /\ md_map = "none"
  /\ md_class = 0
  /\ md_meta_size = 0
  /\ md_slots = <<>>
  /\ md_meta = <<>>
  /\ md_pc = "parked"

(***************************************************************************)
(* LargeMmapAllocator: the intrusive list of headers under concurrent      *)
(* Allocate and Deallocate.                                                *)
(***************************************************************************)
\* threads calling the large allocator
NumLargeThreads == 2
\* calls made in one run
MaxLargeOps == 3
\* pages of address space MmapOrDie chooses from
LgNumPages == 6

LargeThreads == 1 .. NumLargeThreads

\* the page addresses of the address space, in bytes
LgPageAddrs == {k * kPageSize : k \in 1 .. LgNumPages}

\* the arguments of Allocate
LgSizes == {100}
LgAlignments == {8, 2 * kPageSize}

\* the arguments of PointerIsMine: every page address and an address inside
\* a page
LgPointers == LgPageAddrs \cup {kPageSize + 8}

\* a page MmapOrDie has just produced reads as zero
ZeroHeader == [map_beg |-> 0, map_size |-> 0, size |-> 0, next |-> 0, prev |-> 0]

NoLgCall == [op |-> "none", size |-> 0, alignment |-> 0, res |-> 0, h |-> 0, prev |-> 0, next |-> 0, mine |-> FALSE, live |-> FALSE]

LgParked ==
  /\ lg_mapped = {}
  /\ lg_hdr = <<>>
  /\ lg_list_ = 0
  /\ lg_mutex_ = 0
  /\ lg_pc = <<>>
  /\ lg_call = <<>>
  /\ lg_owned = <<>>
  /\ lg_linked = {}
  /\ lg_ops = 0

(***************************************************************************)
(* FakeStack::Allocate statement by statement, interrupted by a signal     *)
(* handler that runs instrumented code on the same thread.                 *)
(***************************************************************************)
\* cap on the number of fake-stack calls
MaxSgOps == 6
\* cap on the depth of the thread's instrumented call stack
MaxSgDepth == 2
\* cap on the depth of the handler's instrumented call stack
MaxSgHandlerDepth == 1

\* the real stack pointer above the outermost frame, in arbitrary units
SgStackTop == 2 * (MaxSgDepth + 2) + MaxSgHandlerDepth

NoSgLoc == [class_id |-> 0, i |-> 0, pos |-> 0, real_stack |-> 0]

SgParked ==
  /\ sg_flags = <<>>
  /\ sg_real_stack = <<>>
  /\ sg_hint_position = <<>>
  /\ sg_needs_gc = FALSE
  /\ sg_mask = {}
  /\ sg_stack = <<>>
  /\ sg_hstack = <<>>
  /\ sg_pc = "parked"
  /\ sg_loc = NoSgLoc
  /\ sg_in_handler = FALSE
  /\ sg_held = {}
  /\ sg_twice = FALSE
  /\ sg_dead = FALSE
  /\ sg_ops = 0

(***************************************************************************)
(* The malloc replacement library: malloc and free of every thread go      *)
(* through the one static AllocatorCache.                                  *)
(***************************************************************************)
\* threads of the application that call malloc and free
NumTestlibThreads == 2
\* cap on the number of malloc and free calls
MaxTestlibOps == 4

TestlibThreads == 1 .. NumTestlibThreads

TlParked ==
  /\ tl_free_list = <<>>
  /\ tl_carved = 0
  /\ tl_cache = <<>>
  /\ tl_pc = <<>>
  /\ tl_res = <<>>
  /\ tl_owned = <<>>
  /\ tl_users = {}
  /\ tl_dead = FALSE
  /\ tl_ops = 0

(***************************************************************************)
(* The quarantine under concurrently freeing threads.  The quarantine's    *)
(* code is not part of the sources at hand; Put, the splice, the eviction  *)
(* and Drain follow the design document.                                   *)
(***************************************************************************)
\* threads that free chunks
NumQuarantineThreads == 2
\* chunks that are freed, all of SlotSize bytes
NumQuarantineChunks == 4
\* cap on the number of Put and Drain calls
MaxQuarantineOps == 5

QuarantineThreads == 1 .. NumQuarantineThreads
QuarantineChunks == 1 .. NumQuarantineChunks

QrParked ==
  /\ qr_cap = 0
  /\ qr_budget = 0
  /\ qr_state = <<>>
  /\ qr_batch = <<>>
  /\ qr_global = <<>>
  /\ qr_mutex = 0
  /\ qr_pc = <<>>
  /\ qr_ops = 0

(***************************************************************************)
(* Die, the termination routine, called by several threads and from its    *)
(* own steps.                                                              *)
(***************************************************************************)
\* threads that may call Die
NumDieThreads == 2

DieThreads == 1 .. NumDieThreads
\* what the death callback does: it returns, or it fails an internal check
\* or reports an error, which ends in Die
DeathCallbacks == {"none", "returns", "dies"}

DiParked ==
  /\ di_num_calls = 0
  /\ di_flags = <<>>
  /\ di_pc = <<>>
  /\ di_first = 0
  /\ di_reentered = {}
  /\ di_exited = "parked"

\* the shadow of a slot after Allocate: left redzone, right redzone over
\* the rest of the slot, then exactly user_size bytes unpoisoned
ShadowAfterAllocate(sh, slot, user_size) ==
  LET left == PoisonRange(sh, ChunkBeg(slot), FLAG_redzone,
                          kAsanHeapLeftRedzoneMagic)
      right == PoisonRange(left, UserBeg(slot), SlotSize - FLAG_redzone,
                           kAsanHeapRightRedzoneMagic)
  IN  PoisonRange(right, UserBeg(slot), user_size, 0)

\* the metadata Allocate stores
AllocatedChunk(user_size, api_tag) ==
  [state |-> "Allocated", requested_size |-> user_size,
   actual_size |-> SlotSize, alloc_stack |-> AllocStackId(api_tag),
   free_stack |-> 0, api_tag |-> api_tag]

\* AddrIsInMem: addr lies in the tracked application range
AddrIsInMem(addr) == addr >= 0 /\ addr < MemBytes

HpParked ==
  /\ shadow = [g \in Granules |-> 0]
  /\ hp_chunks = [s \in Slots |-> UnusedChunk]
  /\ hp_free_list = <<>>
  /\ hp_batch = [t \in HeapThreads |-> <<>>]
  /\ hp_global = <<>>
  /\ hp_flags = [alloc_dealloc_mismatch |-> FALSE]
  /\ hp_report = NoReport
  /\ hp_dead = FALSE
  /\ hp_freed = [s \in Slots |-> FALSE]

hpOthers == <<scVars, rpVars, alVars, fkVars, psVars, rgVars, cbVars, clVars, lcVars, mdVars, lgVars, sgVars, tlVars, qrVars, diVars>>

HpInit ==
  /\ shadow = [g \in Granules |-> 0]
  /\ hp_chunks = [s \in Slots |-> UnusedChunk]
  \* the free list as PopulateFreeList leaves it: each slot pushed in front
  /\ hp_free_list = [i \in 1 .. NumSlots |-> NumSlots - i]
  /\ hp_batch = [t \in HeapThreads |-> <<>>]
  /\ hp_global = <<>>
  /\ hp_flags \in [alloc_dealloc_mismatch : BOOLEAN]
  /\ hp_report = NoReport
  /\ hp_dead = FALSE
  /\ hp_freed = [s \in Slots |-> FALSE]
  /\ ScParked
  /\ RpParked
  /\ AlParked
  /\ FkParked
  /\ PsParked
  /\ RgParked
  /\ CbParked
  /\ ClParked
  /\ LcParked
  /\ MdParked
  /\ LgParked
  /\ SgParked
  /\ TlParked
  /\ QrParked
  /\ DiParked

\* RedzoneManager.Allocate(user_size, 8, stack_id) through API api_tag
HpAllocate(t, user_size, api_tag) ==
  /\ ~hp_dead
  /\ ClassID(DefaultSizeClassMap, PaddedSize(user_size)) = HeapClassId
  /\ hp_free_list # <<>>
  /\ LET slot == Head(hp_free_list)
     IN  /\ shadow' = ShadowAfterAllocate(shadow, slot, user_size)
         /\ hp_chunks' = [hp_chunks EXCEPT ![slot] =
                            AllocatedChunk(user_size, api_tag)]
         /\ hp_free_list' = Tail(hp_free_list)
         /\ hp_freed' = [hp_freed EXCEPT ![slot] = FALSE]
  /\ UNCHANGED <<hp_batch, hp_global, hp_flags, hp_report, hp_dead>>
  /\ UNCHANGED hpOthers

\* QuarantineQueue.Put and the eviction that follows a splice: the values
\* of the batch of t, the global queue, the chunks and the free list
QuarantineAfterSplice(t, batch_t, chunks) ==
  LET global == hp_global \o batch_t
      n == EvictCount(global)
      evicted == SubSeq(global, 1, n)
  IN  [batch |-> [hp_batch EXCEPT ![t] = <<>>],
       global |-> SubSeq(global, n + 1, Len(global)),
       chunks |-> [s \in Slots |->
                     IF \E i \in 1 .. n : evicted[i] = s
                     THEN RecycledChunk ELSE chunks[s]],
       free_list |-> PushFrontAll(hp_free_list, evicted)]

QuarantinePut(t, slot, chunks) ==
  LET batch_t == Append(hp_batch[t], slot)
  IN  IF QuarantineBytes(batch_t) > ThreadQuarantineCap
      THEN QuarantineAfterSplice(t, batch_t, chunks)
      ELSE [batch |-> [hp_batch EXCEPT ![t] = batch_t],
            global |-> hp_global, chunks |-> chunks,
            free_list |-> hp_free_list]

\* slip: only a chunk still in quarantine counts as already freed, so the
\* pointer of an evicted chunk is accepted again
HpDeallocate_OnlyQuarantined(t, slot, api_tag) ==
  /\ ~hp_dead
  /\ hp_chunks[slot].state # "Unused"
  /\ IF hp_chunks[slot].state = "Quarantined"
     THEN /\ hp_report' = FreeReport("double-free", hp_chunks, slot)
          /\ hp_dead' = TRUE
          /\ UNCHANGED <<shadow, hp_chunks, hp_free_list, hp_batch, hp_global,
                         hp_freed>>
     ELSE IF hp_flags.alloc_dealloc_mismatch
             /\ hp_chunks[slot].api_tag # api_tag
     THEN /\ hp_report' = FreeReport("alloc-dealloc-mismatch", hp_chunks, slot)
          /\ hp_dead' = TRUE
          /\ UNCHANGED <<shadow, hp_chunks, hp_free_list, hp_batch, hp_global,
                         hp_freed>>
     ELSE LET freed == [hp_chunks EXCEPT ![slot].state = "Quarantined",
                                         ![slot].free_stack = FreeStackId(api_tag)]
              q == QuarantinePut(t, slot, freed)
          IN  /\ shadow' = PoisonRange(shadow, ChunkBeg(slot), SlotSize,
                                       kAsanHeapFreeMagic)
              /\ hp_chunks' = q.chunks
              /\ hp_batch' = q.batch
              /\ hp_global' = q.global
              /\ hp_free_list' = q.free_list
              /\ hp_freed' = [hp_freed EXCEPT ![slot] = TRUE]
              /\ UNCHANGED <<hp_report, hp_dead>>
  /\ UNCHANGED hp_flags
  /\ UNCHANGED hpOthers

\* RedzoneManager.Deallocate(p, stack_id, api_tag), p the user pointer of
\* slot, a pointer some Allocate returned earlier
HpDeallocate(t, slot, api_tag) ==
  /\ ~hp_dead
  /\ hp_chunks[slot].state # "Unused"
  /\ IF hp_chunks[slot].state # "Allocated"
     THEN /\ hp_report' = FreeReport("double-free", hp_chunks, slot)
          /\ hp_dead' = TRUE
          /\ UNCHANGED <<shadow, hp_chunks, hp_free_list, hp_batch, hp_global,
                         hp_freed>>
     ELSE IF hp_flags.alloc_dealloc_mismatch
             /\ hp_chunks[slot].api_tag # api_tag
     THEN /\ hp_report' = FreeReport("alloc-dealloc-mismatch", hp_chunks, slot)
          /\ hp_dead' = TRUE
          /\ UNCHANGED <<shadow, hp_chunks, hp_free_list, hp_batch, hp_global,
                         hp_freed>>
     ELSE LET freed == [hp_chunks EXCEPT ![slot].state = "Quarantined",
                                         ![slot].free_stack = FreeStackId(api_tag)]
              q == QuarantinePut(t, slot, freed)
          IN  /\ shadow' = PoisonRange(shadow, ChunkBeg(slot), SlotSize,
                                       kAsanHeapFreeMagic)
              /\ hp_chunks' = q.chunks
              /\ hp_batch' = q.batch
              /\ hp_global' = q.global
              /\ hp_free_list' = q.free_list
              /\ hp_freed' = [hp_freed EXCEPT ![slot] = TRUE]
              /\ UNCHANGED <<hp_report, hp_dead>>
  /\ UNCHANGED hp_flags
  /\ UNCHANGED hpOthers

\* QuarantineQueue.Drain at thread exit
HpDrain(t) ==
  /\ ~hp_dead
  /\ hp_batch[t] # <<>>
  /\ LET q == QuarantineAfterSplice(t, hp_batch[t], hp_chunks)
     IN  /\ hp_chunks' = q.chunks
         /\ hp_batch' = q.batch
         /\ hp_global' = q.global
         /\ hp_free_list' = q.free_list
  /\ UNCHANGED <<shadow, hp_flags, hp_report, hp_dead, hp_freed>>
  /\ UNCHANGED hpOthers

\* the addresses the clients access: around the user region of every
\* chunk that was ever handed out
AccessAddrs ==
  UNION { { UserBeg(s) + d : d \in {0 - 1, 0, 8, 10} } :
          s \in { x \in Slots : hp_chunks[x].state # "Unused" } }

\* an instrumented access that the inline check finds poisoned:
\* __asan_report_error classifies it and the process dies
HpInvalidAccess(t, addr, access_size, is_write) ==
  /\ ~hp_dead
  /\ IsPoisoned(shadow, addr, access_size)
  /\ hp_report' = AccessReport(shadow, hp_chunks, addr, access_size, is_write)
  /\ hp_dead' = TRUE
  /\ UNCHANGED <<shadow, hp_chunks, hp_free_list, hp_batch, hp_global, hp_flags,
                 hp_freed>>
  /\ UNCHANGED hpOthers

HpNext ==
  \/ \E t \in HeapThreads, r \in Requests :
       HpAllocate(t, r.size, r.api_tag)
  \/ \E t \in HeapThreads, s \in Slots, tag \in ApiTags :
       HpDeallocate(t, s, tag)
  \/ \E t \in HeapThreads : HpDrain(t)
  \/ \E t \in HeapThreads, a \in AccessAddrs, x \in Accesses :
       HpInvalidAccess(t, a, x.size, x.is_write)

SpecHeap == HpInit /\ [][HpNext]_vars

AccessKinds ==
  {"heap-buffer-overflow", "heap-use-after-free", "stack-buffer-underflow",
   "stack-buffer-overflow", "stack-use-after-return", "use-after-poison",
   "global-buffer-overflow", "unknown-crash"}

\* C8: for a live chunk of user size n a 1-byte access at ptr+n is caught
\* and classified heap-buffer-overflow, and the record describes it at
\* offset n of the n-byte region, also when n is not a multiple of 8
C8_OverflowPastUserRegion ==
  /\ \A s \in Slots :
        hp_chunks[s].state = "Allocated" =>
          LET a == UserBeg(s) + hp_chunks[s].requested_size
          IN  /\ IsPoisoned(shadow, a, 1)
              /\ BugDescr(shadow, a, 1) = "heap-buffer-overflow"
  /\ \A s \in Slots :
        ( /\ hp_dead
          /\ hp_report.kind \in AccessKinds
          /\ hp_report.access_size = 1
          /\ hp_chunks[s].state = "Allocated"
          /\ hp_report.addr = UserBeg(s) + hp_chunks[s].requested_size )
        => /\ hp_report.kind = "heap-buffer-overflow"
           /\ hp_report.region_size = hp_chunks[s].requested_size
           /\ hp_report.offset = hp_report.region_size

\* Allocate(10, 8), then a 1-byte write at ptr+10, which shares its granule
\* with the two valid bytes ptr+8 and ptr+9
C8_Witness ==
  /\ hp_dead
  /\ hp_report.kind = "heap-buffer-overflow"
  /\ hp_report.access_size = 1
  /\ hp_report.is_write
  /\ hp_report.region_size = 10
  /\ hp_report.offset = 10
  /\ hp_chunks[SlotOf(hp_report.addr)].state = "Allocated"
  /\ ShadowAt(shadow, MemToShadow(hp_report.addr)) = 2

AllAccessSizes == {1, 2, 4, 8, 16}

\* C9: while a freed chunk is in quarantine every granule of its extent
\* (user bytes and both redzones) carries the free magic, and an access of
\* any width to any of its bytes is caught and classified
\* heap-use-after-free
C9_FreedExtentPoisoned ==
  /\ \A s \in Slots :
        hp_chunks[s].state = "Quarantined" =>
          /\ \A g \in MemToShadow(ChunkBeg(s)) .. MemToShadow(ChunkBeg(s) + SlotSize - 1) :
                shadow[g] = kAsanHeapFreeMagic
          /\ \A a \in ChunkBeg(s) .. (ChunkBeg(s) + SlotSize - 1), n \in AllAccessSizes :
                /\ IsPoisoned(shadow, a, n)
                /\ BugDescr(shadow, a, n) = "heap-use-after-free"
  /\ ( /\ hp_dead
       /\ hp_report.kind \in AccessKinds
       /\ hp_chunks[SlotOf(hp_report.addr)].state = "Quarantined" )
     => hp_report.kind = "heap-use-after-free"

\* Allocate(10, 8), Deallocate(ptr), then a 1-byte write at ptr while the
\* chunk is still in quarantine
C9_Witness ==
  /\ hp_dead
  /\ hp_report.kind = "heap-use-after-free"
  /\ hp_report.is_write
  /\ hp_report.access_size = 1
  /\ hp_report.offset = 0
  /\ hp_report.region_size = 10
  /\ hp_report.alloc_stack = AllocStackId("malloc")
  /\ hp_report.free_stack = FreeStackId("malloc")
  /\ hp_chunks[SlotOf(hp_report.addr)].state = "Quarantined"

\* C10: a Deallocate of a pointer that an earlier Deallocate accepted and
\* that no Allocate returned since is rejected with DoubleFree: the record
\* is a double-free record and neither the quarantine, the chunk metadata
\* nor the shadow changes
C10_SecondFreeIsDoubleFree ==
  [][ \A t \in HeapThreads, s \in Slots, tag \in ApiTags :
        (hp_freed[s] /\ HpDeallocate(t, s, tag))
        => /\ hp_report'.kind = "double-free"
           /\ hp_report'.addr = UserBeg(s)
           /\ UNCHANGED <<hp_batch, hp_global, hp_chunks, hp_free_list, shadow>> ]_vars

\* a second Deallocate hit a chunk that the quarantine had already evicted
C10_Witness ==
  /\ hp_report.kind = "double-free"
  /\ hp_freed[SlotOf(hp_report.addr)]
  /\ hp_chunks[SlotOf(hp_report.addr)].state = "Recycled"
  /\ hp_dead

(***************************************************************************)
(* The error-report entry point __asan_report_error called by several      *)
(* threads.  The heap is at rest in a state with one live chunk and one    *)
(* freed chunk; the report path only reads it.                             *)
(***************************************************************************)
rpOthers == <<scVars, hpVars, alVars, fkVars, psVars, rgVars, cbVars, clVars, lcVars, mdVars, lgVars, sgVars, tlVars, qrVars, diVars>>

\* the heap after malloc(10), new of 8 bytes and delete of the latter
RpInit ==
  /\ num_calls = 0
  /\ rp_pc = [t \in ReportThreads |-> "client"]
  /\ rp_fault = [t \in ReportThreads |-> NoFault]
  /\ rp_record = NoReport
  /\ rp_reports = 0
  /\ rp_passed = {}
  /\ rp_resumed = {}
  /\ rp_calls = 0
  /\ rp_exited = FALSE
  /\ shadow = PoisonRange(
                ShadowAfterAllocate([g \in Granules |-> 0], LiveSlot, 10),
                ChunkBeg(FreedSlot), SlotSize, kAsanHeapFreeMagic)
  /\ hp_chunks = [s \in Slots |->
       IF s = LiveSlot THEN AllocatedChunk(10, "malloc")
       ELSE IF s = FreedSlot
         THEN [AllocatedChunk(8, "new") EXCEPT
                 !.state = "Quarantined", !.free_stack = FreeStackId("new")]
       ELSE UnusedChunk]
  /\ hp_free_list = [i \in 1 .. (NumSlots - 2) |-> NumSlots - 2 - i]
  /\ hp_batch = [t \in HeapThreads |-> IF t = 1 THEN <<FreedSlot>> ELSE <<>>]
  /\ hp_global = <<>>
  /\ hp_flags = [alloc_dealloc_mismatch |-> FALSE]
  /\ hp_report = NoReport
  /\ hp_dead = FALSE
  /\ hp_freed = [s \in Slots |-> s = FreedSlot]
  /\ ScParked
  /\ AlParked
  /\ FkParked
  /\ PsParked
  /\ RgParked
  /\ CbParked
  /\ ClParked
  /\ LcParked
  /\ MdParked
  /\ LgParked
  /\ SgParked
  /\ TlParked
  /\ QrParked
  /\ DiParked

\* the inline check of thread t found an invalid access and calls
\* __asan_report_error
RpCall(t, f) ==
  /\ ~rp_exited
  /\ rp_pc[t] = "client"
  /\ rp_calls < MaxCalls
  /\ rp_pc' = [rp_pc EXCEPT ![t] = "guard"]
  /\ rp_fault' = [rp_fault EXCEPT ![t] = f]
  /\ rp_calls' = rp_calls + 1
  /\ UNCHANGED <<num_calls, rp_record, rp_reports, rp_passed, rp_resumed,
                 rp_exited>>
  /\ UNCHANGED rpOthers

\* if (AtomicInc(&num_calls) > 1) return;
RpGuard(t) ==
  /\ ~rp_exited
  /\ rp_pc[t] = "guard"
  /\ LET r == AtomicInc(num_calls)
     IN  /\ num_calls' = r.val
         /\ IF r.ret > 1
            THEN /\ rp_pc' = [rp_pc EXCEPT ![t] = "returned"]
                 /\ UNCHANGED rp_passed
            ELSE /\ rp_pc' = [rp_pc EXCEPT ![t] = "classify"]
                 /\ rp_passed' = rp_passed \cup {t}
  /\ UNCHANGED <<rp_fault, rp_record, rp_reports, rp_resumed, rp_calls,
                 rp_exited>>
  /\ UNCHANGED rpOthers

\* the header is printed and bug_descr computed; the report has started
RpClassify(t) ==
  /\ ~rp_exited
  /\ rp_pc[t] = "classify"
  /\ rp_reports' = rp_reports + 1
  /\ rp_record' =
       [kind |-> IF AddrIsInMem(rp_fault[t].addr)
                 THEN BugDescr(shadow, rp_fault[t].addr, rp_fault[t].access_size)
                 ELSE "unknown-crash",
        addr |-> rp_fault[t].addr,
        access_size |-> rp_fault[t].access_size,
        is_write |-> rp_fault[t].is_write]
  /\ rp_pc' = [rp_pc EXCEPT ![t] = "check"]
  /\ UNCHANGED <<num_calls, rp_fault, rp_passed, rp_resumed, rp_calls,
                 rp_exited>>
  /\ UNCHANGED rpOthers

\* CHECK(AddrIsInMem(addr)); DescribeAddress and the shadow dump follow,
\* a failed check goes to CheckFailed
RpDescribe(t) ==
  /\ ~rp_exited
  /\ rp_pc[t] = "check"
  /\ rp_pc' = [rp_pc EXCEPT ![t] =
       IF AddrIsInMem(rp_fault[t].addr) THEN "die" ELSE "check_failed"]
  /\ UNCHANGED <<num_calls, rp_fault, rp_record, rp_reports, rp_passed,
                 rp_resumed, rp_calls, rp_exited>>
  /\ UNCHANGED rpOthers

\* CheckFailed: the message, the stack, then ShowStatsAndAbort
RpCheckFailed(t) ==
  /\ ~rp_exited
  /\ rp_pc[t] = "check_failed"
  /\ rp_pc' = [rp_pc EXCEPT ![t] = "die"]
  /\ UNCHANGED <<num_calls, rp_fault, rp_record, rp_reports, rp_passed,
                 rp_resumed, rp_calls, rp_exited>>
  /\ UNCHANGED rpOthers

\* AsanDie: _exit(FLAG_exitcode) ends the process and all its threads
RpDie(t) ==
  /\ ~rp_exited
  /\ rp_pc[t] = "die"
  /\ rp_exited' = TRUE
  /\ UNCHANGED <<num_calls, rp_pc, rp_fault, rp_record, rp_reports,
                 rp_passed, rp_resumed, rp_calls>>
  /\ UNCHANGED rpOthers

\* a thread whose report call returned goes on with client code, first of
\* all with the access that was found invalid
RpResume(t) ==
  /\ ~rp_exited
  /\ rp_pc[t] = "returned"
  /\ rp_pc' = [rp_pc EXCEPT ![t] = "client"]
  /\ rp_resumed' = rp_resumed \cup {t}
  /\ UNCHANGED <<num_calls, rp_fault, rp_record, rp_reports, rp_passed,
                 rp_calls, rp_exited>>
  /\ UNCHANGED rpOthers

RpNext ==
  \/ \E t \in ReportThreads, f \in Faults : RpCall(t, f)
  \/ \E t \in ReportThreads : RpGuard(t)
  \/ \E t \in ReportThreads : RpClassify(t)
  \/ \E t \in ReportThreads : RpDescribe(t)
  \/ \E t \in ReportThreads : RpCheckFailed(t)
  \/ \E t \in ReportThreads : RpDie(t)
  \/ \E t \in ReportThreads : RpResume(t)

SpecReport == RpInit /\ [][RpNext]_vars

\* C3: however many threads call the report entry, exactly one passes the
\* guard and at most one report is ever started
C3_ExactlyOneReport ==
  /\ Cardinality(rp_passed) <= 1
  /\ rp_reports <= 1
  /\ num_calls >= 1 => Cardinality(rp_passed) = 1
  /\ rp_exited => rp_reports = 1

\* two threads called; one printed its report and ended the process, the
\* other found the guard set
C3_Witness ==
  /\ rp_exited
  /\ num_calls >= 2
  /\ rp_reports = 1
  /\ \E t \in ReportThreads : t \notin rp_passed /\ rp_pc[t] = "returned"

\* C4: a call of the report entry never returns: no thread runs client
\* code after it has called the report entry
C4_ReportNeverReturns ==
  rp_resumed = {}

(***************************************************************************)
(* Specification of the combined allocator: threads call malloc, free and  *)
(* realloc; each call runs through the steps of CombinedAllocator,         *)
(* the local cache, the Region and the large allocator.                    *)
(***************************************************************************)
alOthers == <<scVars, hpVars, rpVars, fkVars, psVars, rgVars, cbVars, clVars, lcVars, mdVars, lgVars, sgVars, tlVars, qrVars, diVars>>

AlInit ==
  /\ al_meta_size \in {0, 16}
  /\ al_free_list = <<>>
  /\ al_allocated_user = 0
  /\ al_mapped_user = 0
  /\ al_allocated_meta = 0
  /\ al_mapped_meta = 0
  /\ al_mutex = 0
  /\ al_cache = [t \in AllocThreads |-> <<>>]
  /\ al_list = <<>>
  /\ al_large_mutex = 0
  /\ al_mapped = {}
  /\ al_pc = [t \in AllocThreads |-> "idle"]
  /\ al_call = [t \in AllocThreads |-> NoCall]
  /\ al_owned = [t \in AllocThreads |-> {}]
  /\ al_failed = {}
  /\ al_ops = 0
  /\ al_trip = NoTrip
  /\ ScParked
  /\ HpParked
  /\ RpParked
  /\ FkParked
  /\ PsParked
  /\ RgParked
  /\ CbParked
  /\ ClParked
  /\ LcParked
  /\ MdParked
  /\ LgParked
  /\ SgParked
  /\ TlParked
  /\ QrParked
  /\ DiParked

TripRunning == al_trip.phase \in {"alloc", "free"}

\* a thread steps unless the process died or another thread's round trip
\* is being observed
MayStep(t) ==
  /\ \A u \in AllocThreads : al_pc[u] # "die"
  /\ TripRunning => al_trip.t = t

\* the mapping mmap returns: the lowest one not in use
FreshMap == CHOOSE m \in 0 .. Cardinality(al_mapped) : m \notin al_mapped

\* malloc(size): allocator.Allocate(&cache, size, 8)
AlMalloc(t, size) ==
  /\ MayStep(t) /\ ~TripRunning
  /\ al_pc[t] = "idle"
  /\ al_ops < MaxAllocOps
  /\ al_ops' = al_ops + 1
  /\ al_call' = [al_call EXCEPT ![t] = [NoCall EXCEPT !.op = "malloc",
                                                       !.size = size]]
  /\ al_pc' = [al_pc EXCEPT ![t] = "allocate"]
  /\ UNCHANGED <<al_meta_size, al_free_list, al_allocated_user,
                 al_mapped_user, al_allocated_meta, al_mapped_meta, al_mutex,
                 al_cache, al_list, al_large_mutex, al_mapped, al_owned,
                 al_failed, al_trip>>
  /\ UNCHANGED alOthers

\* free(p): allocator.Deallocate(&cache, p)
AlFree(t, p) ==
  /\ MayStep(t) /\ ~TripRunning
  /\ al_pc[t] = "idle"
  /\ al_ops < MaxAllocOps
  /\ p \in al_owned[t]
  /\ al_ops' = al_ops + 1
  /\ al_owned' = [al_owned EXCEPT ![t] = @ \ {p}]
  /\ al_call' = [al_call EXCEPT ![t] = [NoCall EXCEPT !.op = "free",
                                                       !.p = p]]
  /\ al_pc' = [al_pc EXCEPT ![t] = "deallocate"]
  /\ UNCHANGED <<al_meta_size, al_free_list, al_allocated_user,
                 al_mapped_user, al_allocated_meta, al_mapped_meta, al_mutex,
                 al_cache, al_list, al_large_mutex, al_mapped, al_failed,
                 al_trip>>
  /\ UNCHANGED alOthers

\* realloc(p, new_size) with p non-null and new_size non-zero: Reallocate
\* checks PointerIsMine(p) (under the list lock for a large pointer),
\* computes memcpy_size and calls Allocate
AlRealloc(t, p, new_size) ==
  /\ MayStep(t) /\ ~TripRunning
  /\ al_pc[t] = "idle"
  /\ al_ops < MaxAllocOps
  /\ p \in al_owned[t]
  /\ new_size # 0
  /\ ~PointerIsMine(p) => al_large_mutex = 0
  /\ al_ops' = al_ops + 1
  /\ al_owned' = [al_owned EXCEPT ![t] = @ \ {p}]
  /\ al_call' = [al_call EXCEPT ![t] = [NoCall EXCEPT !.op = "realloc",
                                          !.p = p, !.size = new_size]]
  /\ al_pc' = [al_pc EXCEPT ![t] = "allocate"]
  /\ UNCHANGED <<al_meta_size, al_free_list, al_allocated_user,
                 al_mapped_user, al_allocated_meta, al_mapped_meta, al_mutex,
                 al_cache, al_list, al_large_mutex, al_mapped, al_failed,
                 al_trip>>
  /\ UNCHANGED alOthers

\* CombinedAllocator::Allocate up to the backend's first lock or system
\* call; a non-empty cache serves the request at once
AlAllocate(t) ==
  /\ MayStep(t)
  /\ al_pc[t] = "allocate"
  /\ LET size == IF al_call[t].size = 0 THEN 1 ELSE al_call[t].size
     IN  IF ULess(size + kAlignment, size)
         THEN /\ al_pc' = [al_pc EXCEPT ![t] = "allocated"]
              /\ UNCHANGED <<al_call, al_cache>>
         ELSE IF CanAllocate(size, kAlignment)
         THEN IF al_cache[t] = <<>>
              THEN /\ al_pc' = [al_pc EXCEPT ![t] = "bulk_lock"]
                   /\ UNCHANGED <<al_call, al_cache>>
              ELSE /\ al_call' = [al_call EXCEPT
                                    ![t].res = PrimaryPtr(Head(al_cache[t]))]
                   /\ al_cache' = [al_cache EXCEPT ![t] = Tail(@)]
                   /\ al_pc' = [al_pc EXCEPT ![t] = "allocated"]
         ELSE IF ULess(RoundUpMapSize(size), size)
         THEN /\ al_pc' = [al_pc EXCEPT ![t] = "allocated"]
              /\ UNCHANGED <<al_call, al_cache>>
         ELSE /\ al_pc' = [al_pc EXCEPT ![t] = "large_mmap"]
              /\ UNCHANGED <<al_call, al_cache>>
  /\ UNCHANGED <<al_meta_size, al_free_list, al_allocated_user,
                 al_mapped_user, al_allocated_meta, al_mapped_meta, al_mutex,
                 al_list, al_large_mutex, al_mapped, al_owned, al_failed,
                 al_ops, al_trip>>
  /\ UNCHANGED alOthers

\* BulkAllocate: SpinMutexLock l(&region->mutex), then the test of the
\* free list and PopulateFreeList's test of mapped_user
AlBulkLock(t) ==
  /\ MayStep(t)
  /\ al_pc[t] = "bulk_lock"
  /\ al_mutex = 0
  /\ al_mutex' = t
  /\ al_pc' = [al_pc EXCEPT ![t] =
       IF al_free_list # <<>> THEN "bulk_move"
       ELSE IF al_allocated_user + kPopulateSize > al_mapped_user
       THEN "mmap_user" ELSE "populate"]
  /\ UNCHANGED <<al_meta_size, al_free_list, al_allocated_user,
                 al_mapped_user, al_allocated_meta, al_mapped_meta, al_cache,
                 al_list, al_large_mutex, al_mapped, al_call, al_owned,
                 al_failed, al_ops, al_trip>>
  /\ UNCHANGED alOthers

\* PopulateFreeList: MapWithCallback for the user memory (mmap)
AlMmapUser(t) ==
  /\ MayStep(t)
  /\ al_pc[t] = "mmap_user"
  /\ al_mapped_user' = al_mapped_user + kUserMapSize
  /\ al_pc' = [al_pc EXCEPT ![t] = "populate"]
  /\ UNCHANGED <<al_meta_size, al_free_list, al_allocated_user,
                 al_allocated_meta, al_mapped_meta, al_mutex, al_cache,
                 al_list, al_large_mutex, al_mapped, al_call, al_owned,
                 al_failed, al_ops, al_trip>>
  /\ UNCHANGED alOthers

\* PopulateFreeList: the do-while loop and the two counters
AlPopulate(t) ==
  /\ MayStep(t)
  /\ al_pc[t] = "populate"
  /\ LET list == Populated(al_allocated_user,
                           al_allocated_user + kPopulateSize, al_free_list)
         user == al_allocated_user + Len(list) * kClassSize
         meta == al_allocated_meta + Len(list) * al_meta_size
     IN  /\ al_free_list' = list
         /\ al_allocated_user' = user
         /\ al_allocated_meta' = meta
         /\ al_pc' = [al_pc EXCEPT ![t] =
              IF meta > al_mapped_meta THEN "mmap_meta"
              ELSE IF RegionExhausted(user, meta) THEN "die"
              ELSE "bulk_move"]
  /\ UNCHANGED <<al_meta_size, al_mapped_user, al_mapped_meta, al_mutex,
                 al_cache, al_list, al_large_mutex, al_mapped, al_call,
                 al_owned, al_failed, al_ops, al_trip>>
  /\ UNCHANGED alOthers

\* PopulateFreeList: MapWithCallback for the metadata (mmap), then the
\* exhaustion test
AlMmapMeta(t) ==
  /\ MayStep(t)
  /\ al_pc[t] = "mmap_meta"
  /\ al_mapped_meta' = al_mapped_meta + kMetaMapSize
  /\ al_pc' = [al_pc EXCEPT ![t] =
       IF RegionExhausted(al_allocated_user, al_allocated_meta) THEN "die"
       ELSE "bulk_move"]
  /\ UNCHANGED <<al_meta_size, al_free_list, al_allocated_user,
                 al_mapped_user, al_allocated_meta, al_mutex, al_cache,
                 al_list, al_large_mutex, al_mapped, al_call, al_owned,
                 al_failed, al_ops, al_trip>>
  /\ UNCHANGED alOthers

\* BulkAllocate: BulkMove and the release of the lock; then the cache's
\* Allocate pops its front
AlBulkMove(t) ==
  /\ MayStep(t)
  /\ al_pc[t] = "bulk_move"
  /\ LET m == BulkMove(MaxCached(CompactSizeClassMap, kClassId),
                       al_free_list)
     IN  /\ al_free_list' = m.from
         /\ al_cache' = [al_cache EXCEPT ![t] = Tail(m.to)]
         /\ al_call' = [al_call EXCEPT ![t].res = PrimaryPtr(Head(m.to))]
  /\ al_mutex' = 0
  /\ al_pc' = [al_pc EXCEPT ![t] = "allocated"]
  /\ UNCHANGED <<al_meta_size, al_allocated_user, al_mapped_user,
                 al_allocated_meta, al_mapped_meta, al_list, al_large_mutex,
                 al_mapped, al_owned, al_failed, al_ops, al_trip>>
  /\ UNCHANGED alOthers

\* LargeMmapAllocator::Allocate: MmapOrDie (mmap); the header is written
\* into the mapping's first page
AlLargeMmap(t) ==
  /\ MayStep(t)
  /\ al_pc[t] = "large_mmap"
  /\ al_mapped' = al_mapped \cup {FreshMap}
  /\ al_call' = [al_call EXCEPT ![t].res = LargePtr(FreshMap)]
  /\ al_pc' = [al_pc EXCEPT ![t] = "large_lock"]
  /\ UNCHANGED <<al_meta_size, al_free_list, al_allocated_user,
                 al_mapped_user, al_allocated_meta, al_mapped_meta, al_mutex,
                 al_cache, al_list, al_large_mutex, al_owned, al_failed,
                 al_ops, al_trip>>
  /\ UNCHANGED alOthers

\* LargeMmapAllocator::Allocate: SpinMutexLock l(&mutex_)
AlLargeLock(t) ==
  /\ MayStep(t)
  /\ al_pc[t] = "large_lock"
  /\ al_large_mutex = 0
  /\ al_large_mutex' = t
  /\ al_pc' = [al_pc EXCEPT ![t] = "large_link"]
  /\ UNCHANGED <<al_meta_size, al_free_list, al_allocated_user,
                 al_mapped_user, al_allocated_meta, al_mapped_meta, al_mutex,
                 al_cache, al_list, al_mapped, al_call, al_owned, al_failed,
                 al_ops, al_trip>>
  /\ UNCHANGED alOthers

\* LargeMmapAllocator::Allocate: the header becomes the head of list_ and
\* the lock is released
AlLargeLink(t) ==
  /\ MayStep(t)
  /\ al_pc[t] = "large_link"
  /\ al_list' = <<[map |-> al_call[t].res.idx, size |-> al_call[t].size,
                   map_size |-> RoundUpMapSize(al_call[t].size)]>>
                \o al_list
  /\ al_large_mutex' = 0
  /\ al_pc' = [al_pc EXCEPT ![t] = "allocated"]
  /\ UNCHANGED <<al_meta_size, al_free_list, al_allocated_user,
                 al_mapped_user, al_allocated_meta, al_mapped_meta, al_mutex,
                 al_cache, al_mapped, al_call, al_owned, al_failed, al_ops,
                 al_trip>>
  /\ UNCHANGED alOthers

\* Allocate has returned: malloc hands the pointer to its caller;
\* Reallocate copies if new_p is non-null and goes on to Deallocate(p)
AlAllocated(t) ==
  /\ MayStep(t)
  /\ al_pc[t] = "allocated"
  /\ IF al_call[t].op = "realloc"
     THEN /\ al_pc' = [al_pc EXCEPT ![t] = "deallocate"]
          /\ UNCHANGED <<al_call, al_owned, al_trip>>
     ELSE /\ al_pc' = [al_pc EXCEPT ![t] = "idle"]
          /\ al_call' = [al_call EXCEPT ![t] = NoCall]
          /\ IF TripRunning
             THEN /\ al_trip' = [al_trip EXCEPT
                                   !.held = @ \cup {al_call[t].res}]
                  /\ UNCHANGED al_owned
             ELSE /\ al_owned' = [al_owned EXCEPT
                                    ![t] = @ \cup ({al_call[t].res} \ {NullPtr})]
                  /\ UNCHANGED al_trip
  /\ UNCHANGED <<al_meta_size, al_free_list, al_allocated_user,
                 al_mapped_user, al_allocated_meta, al_mapped_meta, al_mutex,
                 al_cache, al_list, al_large_mutex, al_mapped, al_failed,
                 al_ops>>
  /\ UNCHANGED alOthers

\* CombinedAllocator::Deallocate of a primary pointer: the cache's
\* Deallocate pushes it and tests the threshold
AlDeallocate(t) ==
  /\ MayStep(t)
  /\ al_pc[t] = "deallocate"
  /\ PointerIsMine(al_call[t].p)
  /\ al_cache' = [al_cache EXCEPT ![t] = <<al_call[t].p.idx>> \o @]
  /\ al_pc' = [al_pc EXCEPT ![t] =
       IF Len(al_cache'[t]) >= 2 * MaxCached(CompactSizeClassMap, kClassId)
       THEN "drain_half" ELSE "deallocated"]
  /\ UNCHANGED <<al_meta_size, al_free_list, al_allocated_user,
                 al_mapped_user, al_allocated_meta, al_mapped_meta, al_mutex,
                 al_list, al_large_mutex, al_mapped, al_call, al_owned,
                 al_failed, al_ops, al_trip>>
  /\ UNCHANGED alOthers

\* DrainHalf: half of the cache, popped from its front, goes to the
\* Region's free list by BulkDeallocate under the Region's lock
AlDrainHalf(t) ==
  /\ MayStep(t)
  /\ al_pc[t] = "drain_half"
  /\ al_mutex = 0
  /\ LET count == Len(al_cache[t]) \div 2
         half == Reverse(SubSeq(al_cache[t], 1, count))
     IN  /\ al_cache' = [al_cache EXCEPT
                           ![t] = SubSeq(@, count + 1, Len(@))]
         /\ al_free_list' = half \o al_free_list
  /\ al_pc' = [al_pc EXCEPT ![t] = "deallocated"]
  /\ UNCHANGED <<al_meta_size, al_allocated_user, al_mapped_user,
                 al_allocated_meta, al_mapped_meta, al_mutex, al_list,
                 al_large_mutex, al_mapped, al_call, al_owned, al_failed,
                 al_ops, al_trip>>
  /\ UNCHANGED alOthers

\* mutex_ is held while the header is unlinked and released before the
\* unmap
\* slip: the lock's scope extends over the unmap
AlLargeUnlink_LockOverUnmap(t) ==
  /\ MayStep(t)
  /\ al_pc[t] = "deallocate"
  /\ ~PointerIsMine(al_call[t].p)
  /\ al_large_mutex = 0
  /\ al_list' = SelectSeq(al_list, LAMBDA h : h.map # al_call[t].p.idx)
  /\ al_large_mutex' = t
  /\ al_pc' = [al_pc EXCEPT ![t] = "large_munmap"]
  /\ UNCHANGED <<al_meta_size, al_free_list, al_allocated_user,
                 al_mapped_user, al_allocated_meta, al_mapped_meta, al_mutex,
                 al_cache, al_mapped, al_call, al_owned, al_failed, al_ops,
                 al_trip>>
  /\ UNCHANGED alOthers

\* CombinedAllocator::Deallocate of any other pointer:
\* LargeMmapAllocator::Deallocate unlinks the header under mutex_
AlLargeUnlink(t) ==
  /\ MayStep(t)
  /\ al_pc[t] = "deallocate"
  /\ ~PointerIsMine(al_call[t].p)
  /\ al_large_mutex = 0
  /\ al_list' = SelectSeq(al_list, LAMBDA h : h.map # al_call[t].p.idx)
  /\ al_pc' = [al_pc EXCEPT ![t] = "large_munmap"]
  /\ UNCHANGED <<al_meta_size, al_free_list, al_allocated_user,
                 al_mapped_user, al_allocated_meta, al_mapped_meta, al_mutex,
                 al_cache, al_large_mutex, al_mapped, al_call, al_owned,
                 al_failed, al_ops, al_trip>>
  /\ UNCHANGED alOthers

\* LargeMmapAllocator::Deallocate: UnmapOrDie (munmap)
AlLargeMunmap(t) ==
  /\ MayStep(t)
  /\ al_pc[t] = "large_munmap"
  /\ al_mapped' = al_mapped \ {al_call[t].p.idx}
  /\ al_pc' = [al_pc EXCEPT ![t] = "deallocated"]
  /\ UNCHANGED <<al_meta_size, al_free_list, al_allocated_user,
                 al_mapped_user, al_allocated_meta, al_mapped_meta, al_mutex,
                 al_cache, al_list, al_large_mutex, al_call, al_owned,
                 al_failed, al_ops, al_trip>>
  /\ UNCHANGED alOthers

\* Deallocate has returned: free returns; Reallocate returns new_p, and
\* on null its caller goes on holding the old pointer
AlDeallocated(t) ==
  /\ MayStep(t)
  /\ al_pc[t] = "deallocated"
  /\ al_pc' = [al_pc EXCEPT ![t] = "idle"]
  /\ al_call' = [al_call EXCEPT ![t] = NoCall]
  /\ IF al_call[t].op = "realloc"
     THEN IF al_call[t].res = NullPtr
          THEN /\ al_failed' = al_failed \cup {al_call[t].p}
               /\ UNCHANGED al_owned
          ELSE /\ al_owned' = [al_owned EXCEPT
                                 ![t] = @ \cup {al_call[t].res}]
               /\ UNCHANGED al_failed
     ELSE UNCHANGED <<al_owned, al_failed>>
  /\ UNCHANGED <<al_meta_size, al_free_list, al_allocated_user,
                 al_mapped_user, al_allocated_meta, al_mapped_meta, al_mutex,
                 al_cache, al_list, al_large_mutex, al_mapped, al_ops,
                 al_trip>>
  /\ UNCHANGED alOthers

\* the observed round trip starts with the allocator at rest: thread t is
\* to allocate n chunks of the class and then free them
AlTripStart(t, n) ==
  /\ al_trip.phase = "none"
  /\ \A u \in AllocThreads : al_pc[u] = "idle"
  /\ al_trip' = [phase |-> "alloc", t |-> t, todo |-> n, held |-> {},
                 list0 |-> Len(al_free_list), cache0 |-> Len(al_cache[t]),
                 carved0 |-> Carved]
  /\ UNCHANGED <<al_meta_size, al_free_list, al_allocated_user,
                 al_mapped_user, al_allocated_meta, al_mapped_meta, al_mutex,
                 al_cache, al_list, al_large_mutex, al_mapped, al_pc, al_call,
                 al_owned, al_failed, al_ops>>
  /\ UNCHANGED alOthers

AlTripMalloc(t) ==
  /\ al_trip.phase = "alloc" /\ al_trip.t = t /\ al_trip.todo > 0
  /\ al_pc[t] = "idle"
  /\ al_trip' = [al_trip EXCEPT !.todo = @ - 1]
  /\ al_call' = [al_call EXCEPT ![t] = [NoCall EXCEPT !.op = "malloc",
                                                       !.size = kClassSize]]
  /\ al_pc' = [al_pc EXCEPT ![t] = "allocate"]
  /\ UNCHANGED <<al_meta_size, al_free_list, al_allocated_user,
                 al_mapped_user, al_allocated_meta, al_mapped_meta, al_mutex,
                 al_cache, al_list, al_large_mutex, al_mapped, al_owned,
                 al_failed, al_ops>>
  /\ UNCHANGED alOthers

AlTripFree(t, p) ==
  /\ TripRunning /\ al_trip.t = t /\ al_trip.todo = 0
  /\ al_pc[t] = "idle"
  /\ p \in al_trip.held
  /\ al_trip' = [al_trip EXCEPT !.phase = "free", !.held = @ \ {p}]
  /\ al_call' = [al_call EXCEPT ![t] = [NoCall EXCEPT !.op = "free",
                                                       !.p = p]]
  /\ al_pc' = [al_pc EXCEPT ![t] = "deallocate"]
  /\ UNCHANGED <<al_meta_size, al_free_list, al_allocated_user,
                 al_mapped_user, al_allocated_meta, al_mapped_meta, al_mutex,
                 al_cache, al_list, al_large_mutex, al_mapped, al_owned,
                 al_failed, al_ops>>
  /\ UNCHANGED alOthers

\* the round trip is complete: all N chunks were freed
TripComplete ==
  /\ al_trip.phase = "free"
  /\ al_trip.held = {}
  /\ al_pc[al_trip.t] = "idle"

AlTripEnd(t) ==
  /\ TripComplete /\ al_trip.t = t
  /\ al_trip' = [al_trip EXCEPT !.phase = "done"]
  /\ UNCHANGED <<al_meta_size, al_free_list, al_allocated_user,
                 al_mapped_user, al_allocated_meta, al_mapped_meta, al_mutex,
                 al_cache, al_list, al_large_mutex, al_mapped, al_pc, al_call,
                 al_owned, al_failed, al_ops>>
  /\ UNCHANGED alOthers

AlNext ==
  \/ \E t \in AllocThreads, size \in AllocSizes : AlMalloc(t, size)
  \/ \E t \in AllocThreads : \E p \in al_owned[t] : AlFree(t, p)
  \/ \E t \in AllocThreads : \E p \in al_owned[t] :
        \E new_size \in ReallocSizes : AlRealloc(t, p, new_size)
  \/ \E t \in AllocThreads : AlAllocate(t)
  \/ \E t \in AllocThreads : AlBulkLock(t)
  \/ \E t \in AllocThreads : AlMmapUser(t)
  \/ \E t \in AllocThreads : AlPopulate(t)
  \/ \E t \in AllocThreads : AlMmapMeta(t)
  \/ \E t \in AllocThreads : AlBulkMove(t)
  \/ \E t \in AllocThreads : AlLargeMmap(t)
  \/ \E t \in AllocThreads : AlLargeLock(t)
  \/ \E t \in AllocThreads : AlLargeLink(t)
  \/ \E t \in AllocThreads : AlAllocated(t)
  \/ \E t \in AllocThreads : AlDeallocate(t)
  \/ \E t \in AllocThreads : AlDrainHalf(t)
  \/ \E t \in AllocThreads : AlLargeUnlink(t)
  \/ \E t \in AllocThreads : AlLargeMunmap(t)
  \/ \E t \in AllocThreads : AlDeallocated(t)
  \/ \E t \in AllocThreads, n \in 1 .. MaxTripN : AlTripStart(t, n)
  \/ \E t \in AllocThreads : AlTripMalloc(t)
  \/ \E t \in AllocThreads : \E p \in al_trip.held : AlTripFree(t, p)
  \/ \E t \in AllocThreads : AlTripEnd(t)

SpecAlloc == AlInit /\ [][AlNext]_vars

SyscallPcs == {"mmap_user", "mmap_meta", "large_mmap", "large_munmap"}

\* a pointer is intact: its chunk is in no cache and on no free list, or
\* its mapping is mapped and its header is on list_
Intact(p) ==
  IF PointerIsMine(p)
  THEN /\ p.idx \notin ListItems(al_free_list)
       /\ \A t \in AllocThreads : p.idx \notin ListItems(al_cache[t])
  ELSE /\ p.idx \in al_mapped
       /\ \E i \in 1 .. Len(al_list) : al_list[i].map = p.idx

\* C1: when Reallocate(p, new_size) with p non-null and new_size > 0
\* returns null, the old allocation p is untouched: it was not
\* deallocated
C1_FailedReallocKeepsOld ==
  \A p \in al_failed : Intact(p)

\* C2: no thread issues a system call while it holds a Region free-list
\* lock or the large allocator's list lock
C2_NoSyscallUnderLock ==
  \A t \in AllocThreads :
    al_pc[t] \in SyscallPcs => al_mutex # t /\ al_large_mutex # t

\* C2 (amended): no thread issues a system call while it holds the large
\* allocator's list lock; a Region's lock is held across the two mmap
\* calls of the refill, and across no other system call
C2_NoSyscallUnderLargeLock ==
  \A t \in AllocThreads :
    /\ al_pc[t] \in SyscallPcs => al_large_mutex # t
    /\ al_pc[t] \in {"large_mmap", "large_munmap"} => al_mutex # t
    /\ al_pc[t] \in {"mmap_user", "mmap_meta"} => al_mutex = t

\* a thread about to unmap a large allocation, the list lock free, after
\* the Region was refilled
C2_Witness ==
  \E t \in AllocThreads :
    /\ al_pc[t] = "large_munmap"
    /\ al_large_mutex = 0
    /\ al_list = <<>>
    /\ al_mapped_user > 0

\* C7: allocating N chunks of the class and freeing all N leaves the
\* Region's free list with the length it had before
C7_RoundTripRestoresList ==
  TripComplete => Len(al_free_list) = al_trip.list0

\* C7 (amended): after the round trip the chunks on the Region's free list
\* plus those in the thread's cache, less the chunks refills carved out
\* of the Region, are as many as before, and no chunk is there twice
C7_RoundTripConserves ==
  TripComplete =>
    LET t == al_trip.t
        both == al_free_list \o al_cache[t]
    IN  /\ Len(both) - Carved =
             al_trip.list0 + al_trip.cache0 - al_trip.carved0
        /\ Cardinality(ListItems(both)) = Len(both)

\* a round trip during which the Region was refilled and after which a
\* freed chunk is still in the thread's cache
C7_Witness ==
  /\ TripComplete
  /\ Carved > al_trip.carved0
  /\ al_cache[al_trip.t] # <<>>
  /\ Len(al_free_list) # al_trip.list0

(***************************************************************************)
(* Specification of the fake stack: the instrumented code of one thread    *)
(* calls __asan_stack_malloc / __asan_stack_free in LIFO order and may     *)
(* leave frames behind by a non-returning transfer.                        *)
(***************************************************************************)
fkOthers == <<scVars, hpVars, rpVars, alVars, psVars, rgVars, cbVars, clVars, lcVars, mdVars, lgVars, sgVars, tlVars, qrVars, diVars>>

FkInit ==
  /\ fk_flags = [sl \in FkSlots |-> 0]
  /\ fk_real_stack = [sl \in FkSlots |-> 0]
  /\ fk_hint_position = [c \in FkClasses |-> 0]
  /\ fk_needs_gc = FALSE
  /\ fk_mask = {}
  /\ \E v \in {0, kAsanStackAfterReturnMagic} :
        fk_shadow = [g \in FkGranules |-> v]
  /\ fk_stack = <<>>
  /\ fk_last = [sl \in FkSlots |-> NoFkOp]
  /\ fk_dead = FALSE
  /\ fk_ops = 0
  /\ ScParked
  /\ HpParked
  /\ RpParked
  /\ AlParked
  /\ PsParked
  /\ RgParked
  /\ CbParked
  /\ ClParked
  /\ LcParked
  /\ MdParked
  /\ LgParked
  /\ SgParked
  /\ TlParked
  /\ QrParked
  /\ DiParked

\* slip: the last granule of the range is left out
PoisonShadow_SkipsLast(sh, addr, size, value) ==
  [g \in MemToShadow(addr) .. MemToShadow(addr + size) - 2 |-> value] @@ sh

\* PoisonShadow(addr, size, value): the shadow bytes of [addr, addr+size)
PoisonShadow(sh, addr, size, value) ==
  [g \in MemToShadow(addr) .. MemToShadow(addr + size) - 1 |-> value] @@ sh

\* slip: the inlined loop is taken for classes below 6 only
SetShadow_Below6(sh, ptr, size, class_id, magic) ==
  IF class_id < 6
  THEN [g \in MemToShadow(ptr) .. MemToShadow(ptr) + 8 * (2 ^ class_id) - 1
          |-> magic] @@ sh
  ELSE PoisonShadow(sh, ptr, size, magic)

\* SetShadow: 1 << class_id 64-bit shadow words for class_id <= 6, else
\* PoisonShadow of size bytes only
SetShadow(sh, ptr, size, class_id, magic) ==
  IF class_id <= 6
  THEN [g \in MemToShadow(ptr) .. MemToShadow(ptr) + 8 * (2 ^ class_id) - 1
          |-> magic] @@ sh
  ELSE PoisonShadow(sh, ptr, size, magic)

\* slip: the frames at the current real stack pointer are collected too
FlagsAfterGC_AtOrBelow(real_stack) ==
  [sl \in FkSlots |->
     IF sl[1] \in fk_mask /\ fk_flags[sl] # 0
        /\ fk_real_stack[sl] <= real_stack
     THEN 0 ELSE fk_flags[sl]]

\* GC(real_stack): the flags it leaves, over the classes of the mask
FlagsAfterGC(real_stack) ==
  [sl \in FkSlots |->
     IF sl[1] \in fk_mask /\ fk_flags[sl] # 0
        /\ fk_real_stack[sl] < real_stack
     THEN 0 ELSE fk_flags[sl]]

\* slip: the loop gives up one position early
RECURSIVE FkScan_OneShort(_, _, _, _)
FkScan_OneShort(flags, class_id, hint, i) ==
  IF i >= NumberOfFrames(class_id) - 1 THEN NumberOfFrames(class_id)
  ELSE IF flags[<<class_id, ModuloNumberOfFrames(class_id, hint + i)>>] = 0
  THEN i
  ELSE FkScan_OneShort(flags, class_id, hint, i + 1)

\* the loop of Allocate: the number of positions inspected before a clear
\* flag is found, NumberOfFrames if there is none
RECURSIVE FkScan(_, _, _, _)
FkScan(flags, class_id, hint, i) ==
  IF i >= NumberOfFrames(class_id) THEN i
  ELSE IF flags[<<class_id, ModuloNumberOfFrames(class_id, hint + i)>>] = 0
  THEN i
  ELSE FkScan(flags, class_id, hint, i + 1)

\* the real stack pointer of the next instrumented frame
FkRealStack == FkStackTop - Len(fk_stack) - 1

\* __asan_stack_malloc_<class_id>(size, real_stack): OnMalloc, i.e.
\* FakeStack::Allocate (with GC if needs_gc_) and SetShadow(.., 0)
FkOnMalloc(class_id, size) ==
  /\ ~fk_dead
  /\ fk_ops < MaxFkOps
  /\ Len(fk_stack) < MaxFkDepth
  /\ fk_ops' = fk_ops + 1
  /\ LET real_stack == FkRealStack
         flags == IF fk_needs_gc THEN FlagsAfterGC(real_stack) ELSE fk_flags
         i == FkScan(flags, class_id, fk_hint_position[class_id], 0)
         pos == ModuloNumberOfFrames(class_id,
                                     fk_hint_position[class_id] + i)
         sl == <<class_id, pos>>
     IN  /\ fk_needs_gc' = FALSE
         /\ IF i >= NumberOfFrames(class_id)
            THEN /\ fk_dead' = TRUE
                 /\ fk_flags' = flags
                 /\ fk_hint_position' = [fk_hint_position EXCEPT
                                           ![class_id] = @ + i]
                 /\ fk_last' = [s \in FkSlots |->
                      IF fk_flags[s] # flags[s]
                      THEN [op |-> "gc", size |-> fk_last[s].size]
                      ELSE fk_last[s]]
                 /\ UNCHANGED <<fk_real_stack, fk_mask, fk_shadow, fk_stack>>
            ELSE /\ fk_flags' = [flags EXCEPT ![sl] = 1]
                 /\ fk_hint_position' = [fk_hint_position EXCEPT
                                           ![class_id] = @ + i + 1]
                 /\ fk_real_stack' = [fk_real_stack EXCEPT ![sl] = real_stack]
                 /\ fk_mask' = fk_mask \cup {class_id}
                 /\ fk_shadow' = SetShadow(fk_shadow, GetFrame(class_id, pos),
                                           size, class_id, 0)
                 /\ fk_stack' = Append(fk_stack, [class_id |-> class_id,
                                                  pos |-> pos, size |-> size])
                 /\ fk_last' = [s \in FkSlots |->
                      IF s = sl THEN [op |-> "malloc", size |-> size]
                      ELSE IF fk_flags[s] # flags[s]
                      THEN [op |-> "gc", size |-> fk_last[s].size]
                      ELSE fk_last[s]]
                 /\ UNCHANGED fk_dead
  /\ UNCHANGED fkOthers

\* __asan_stack_free_<class_id>(ptr, size, real_stack) on return from the
\* innermost frame: OnFree, i.e. FakeStack::Deallocate and
\* SetShadow(.., kMagic8)
FkOnFree ==
  /\ ~fk_dead
  /\ fk_ops < MaxFkOps
  /\ fk_stack # <<>>
  /\ fk_ops' = fk_ops + 1
  /\ LET f == fk_stack[Len(fk_stack)]
         sl == <<f.class_id, f.pos>>
     IN  /\ fk_stack' = SubSeq(fk_stack, 1, Len(fk_stack) - 1)
         /\ IF fk_flags[sl] # 1
            THEN /\ fk_dead' = TRUE
                 /\ UNCHANGED <<fk_flags, fk_shadow, fk_last>>
            ELSE /\ fk_flags' = [fk_flags EXCEPT ![sl] = 0]
                 /\ fk_shadow' = SetShadow(fk_shadow,
                                           GetFrame(f.class_id, f.pos),
                                           f.size, f.class_id,
                                           kAsanStackAfterReturnMagic)
                 /\ fk_last' = [fk_last EXCEPT
                                  ![sl] = [op |-> "free", size |-> f.size]]
                 /\ UNCHANGED fk_dead
  /\ UNCHANGED <<fk_real_stack, fk_hint_position, fk_needs_gc, fk_mask>>
  /\ UNCHANGED fkOthers

\* a longjmp or throw back to the frame at depth keep: HandleNoReturn is
\* called and the frames above are left without OnFree
FkHandleNoReturn(keep) ==
  /\ ~fk_dead
  /\ fk_ops < MaxFkOps
  /\ keep <= Len(fk_stack)
  /\ fk_ops' = fk_ops + 1
  /\ fk_needs_gc' = TRUE
  /\ fk_stack' = SubSeq(fk_stack, 1, keep)
  /\ UNCHANGED <<fk_flags, fk_real_stack, fk_hint_position, fk_mask,
                 fk_shadow, fk_last, fk_dead>>
  /\ UNCHANGED fkOthers

FkNext ==
  \/ \E c \in FkClasses : \E size \in FkSizes(c) : FkOnMalloc(c, size)
  \/ FkOnFree
  \/ \E keep \in 0 .. MaxFkDepth : FkHandleNoReturn(keep)

SpecFake == FkInit /\ [][FkNext]_vars

\* the granules of the first n bytes of a slot
SlotGranules(sl, n) ==
  MemToShadow(GetFrame(sl[1], sl[2])) ..
    MemToShadow(GetFrame(sl[1], sl[2]) + n) - 1

\* every byte of the first n bytes of the slot is poisoned after-return,
\* and an access to the first or the last of them is classified
\* stack-use-after-return
AfterReturn(sl, n) ==
  /\ \A g \in SlotGranules(sl, n) :
        fk_shadow[g] = kAsanStackAfterReturnMagic
  /\ \A a \in {GetFrame(sl[1], sl[2]), GetFrame(sl[1], sl[2]) + n - 1} :
        BugDescr(fk_shadow, a, 1) = "stack-use-after-return"

\* C11: after FreeFakeFrame of a frame of any class the slot's flag is
\* clear and every byte of the slot carries the after-return magic
C11_FreedSlotPoisoned ==
  \A sl \in DOMAIN fk_last :
    fk_last[sl].op = "free" =>
      /\ fk_flags[sl] = 0
      /\ AfterReturn(sl, BytesInSizeClass(sl[1]))

\* C11 (amended): after FreeFakeFrame the flag is clear; the whole slot
\* carries the after-return magic for class_id <= 6, the first size bytes
\* of the slot for the larger classes
C11_FreedFramePoisoned ==
  \A sl \in DOMAIN fk_last :
    fk_last[sl].op = "free" =>
      /\ fk_flags[sl] = 0
      /\ AfterReturn(sl, IF sl[1] <= 6 THEN BytesInSizeClass(sl[1])
                         ELSE fk_last[sl].size)

\* a class-7 frame smaller than its slot was freed: its bytes are poisoned,
\* the rest of the slot is not
C11_Witness ==
  \E sl \in DOMAIN fk_last :
    /\ sl[1] = 7
    /\ fk_last[sl].op = "free"
    /\ fk_last[sl].size < BytesInSizeClass(7)
    /\ fk_shadow[MemToShadow(GetFrame(7, sl[2]) + fk_last[sl].size)]
         # kAsanStackAfterReturnMagic
    /\ \E s2 \in DOMAIN fk_last : s2[1] = 6 /\ fk_last[s2].op = "free"

\* the slot the step claimed, if it claimed one
FkClaimed(sl) ==
  /\ Len(fk_stack') = Len(fk_stack) + 1
  /\ fk_stack'[Len(fk_stack')].class_id = sl[1]
  /\ fk_stack'[Len(fk_stack')].pos = sl[2]

\* C23: the Allocate that follows HandleNoReturn (the one step that finds
\* needs_gc_ set and clears it) runs GC before it chooses a slot: every
\* claimed slot whose real_stack is below the current real stack pointer
\* is released (it is free afterwards unless this Allocate chose it), no
\* claimed slot whose real_stack is at or above it is released or chosen,
\* and the call fails only if every slot of its class is of the latter kind
C23_GCReclaimsStale ==
  [][fk_needs_gc /\ ~fk_needs_gc' =>
       /\ \A sl \in FkSlots :
            fk_flags[sl] = 1 /\ fk_real_stack[sl] < FkRealStack =>
              \/ fk_flags'[sl] = 0 /\ fk_last'[sl].op = "gc"
              \/ FkClaimed(sl)
       /\ \A sl \in FkSlots :
            fk_flags[sl] = 1 /\ fk_real_stack[sl] >= FkRealStack =>
              /\ fk_flags'[sl] = 1
              /\ ~FkClaimed(sl)
              /\ fk_last'[sl] = fk_last[sl]
              /\ fk_real_stack'[sl] = fk_real_stack[sl]
       /\ \A sl \in FkSlots :
            fk_flags[sl] = 0 => FkClaimed(sl) \/ fk_last'[sl] = fk_last[sl]
       /\ fk_dead' =>
            \E c \in FkClasses :
              \A sl \in FkSlots :
                sl[1] = c =>
                  fk_flags[sl] = 1 /\ fk_real_stack[sl] >= FkRealStack
    ]_vars

\* a GC has released one leaked frame and kept another, whose real_stack
\* was not below the real stack pointer
C23_Witness ==
  /\ ~fk_needs_gc
  /\ ~fk_dead
  /\ \E s1, s2 \in DOMAIN fk_last :
       /\ fk_last[s1].op = "gc"
       /\ fk_flags[s1] = 0
       /\ fk_flags[s2] = 1
       /\ \A i \in 1 .. Len(fk_stack) :
            <<fk_stack[i].class_id, fk_stack[i].pos>> # s2

\* the bytes of a slot that OnMalloc makes addressable for a frame of the
\* given size
FrameBytes(sl, size) ==
  IF sl[1] <= 6 THEN BytesInSizeClass(sl[1]) ELSE size

\* C24: a frame reclaimed by the deferred GC pass is destroyed as by an
\* explicit Deallocate: its flag is clear and its slot carries the
\* after-return magic until it is allocated again
C24_CollectedSlotPoisoned ==
  \A sl \in DOMAIN fk_last :
    fk_last[sl].op = "gc" =>
      /\ fk_flags[sl] = 0
      /\ AfterReturn(sl, FrameBytes(sl, fk_last[sl].size))

\* C24 (amended): a frame reclaimed by the deferred GC pass has its flag
\* cleared and nothing else: its bytes keep the shadow Allocate gave them,
\* so until the slot is allocated again an access to the first or the last
\* byte of the frame is not classified at all
C24_CollectedSlotFlagOnly ==
  \A sl \in DOMAIN fk_last :
    fk_last[sl].op = "gc" =>
      /\ fk_flags[sl] = 0
      /\ \A g \in SlotGranules(sl, FrameBytes(sl, fk_last[sl].size)) :
           fk_shadow[g] = 0
      /\ \A a \in {GetFrame(sl[1], sl[2]),
                   GetFrame(sl[1], sl[2])
                     + FrameBytes(sl, fk_last[sl].size) - 1} :
           ~IsPoisoned(fk_shadow, a, 1)

\* GC has reclaimed a class-7 frame that was left by a non-returning
\* transfer; the slot was not allocated again and a class-6 frame is live
C24_Witness ==
  /\ ~fk_dead
  /\ \E s \in DOMAIN fk_last :
       /\ s[1] = 7
       /\ fk_last[s].op = "gc"
       /\ fk_flags[s] = 0
  /\ \E i \in 1 .. Len(fk_stack) : fk_stack[i].class_id = 6

\* the flags Allocate scans: those GC leaves if a GC is pending
FkFlagsScanned ==
  IF fk_needs_gc THEN FlagsAfterGC(FkRealStack) ELSE fk_flags

\* Allocate(class_id) ran in the step: its hint position moved
FkAllocated(class_id) ==
  fk_hint_position'[class_id] # fk_hint_position[class_id]

\* C29: Allocate(class_id) inspects at least one and at most
\* NumberOfFrames(class_id) slots; if, after the pending GC, a slot of the
\* class is clear, it returns a frame in a slot that was clear and claims
\* it; it fails fatally only if, after the pending GC, every slot of the
\* class is claimed
C29_AllocateFindsClearSlot ==
  [][\A c \in FkClasses :
       FkAllocated(c) =>
         LET inspected == fk_hint_position'[c] - fk_hint_position[c]
             clear == {sl \in FkSlots : sl[1] = c /\ FkFlagsScanned[sl] = 0}
         IN  /\ inspected >= 1
             /\ inspected <= NumberOfFrames(c)
             /\ clear # {} =>
                  /\ ~fk_dead'
                  /\ Len(fk_stack') = Len(fk_stack) + 1
                  /\ <<c, fk_stack'[Len(fk_stack')].pos>> \in clear
                  /\ fk_flags'[<<c, fk_stack'[Len(fk_stack')].pos>>] = 1
                  /\ \A sl \in FkSlots :
                       sl # <<c, fk_stack'[Len(fk_stack')].pos>> =>
                         fk_flags'[sl] = FkFlagsScanned[sl]
             /\ fk_dead' =>
                  /\ clear = {}
                  /\ inspected = NumberOfFrames(c)
                  /\ fk_stack' = fk_stack
     ]_vars

\* Allocate(6) after a non-returning transfer: the pending GC has cleared
\* slot 1, the scan from hint 2 has passed the claimed slot 0 and has found
\* slot 1 with the last of its two inspections
C29_Witness ==
  /\ fk_hint_position # <<>>
  /\ fk_hint_position[6] = 2 * NumberOfFrames(6)
  /\ ~fk_dead
  /\ ~fk_needs_gc
  /\ Len(fk_stack) = 1
  /\ fk_stack[1].pos = 1
  /\ fk_flags[<<6, 0>>] = 1
  /\ fk_last[<<6, 1>>].op = "malloc"

\* Allocate(7) has failed fatally with the only slot of the class claimed
C29_WitnessFatal ==
  /\ fk_dead
  /\ fk_hint_position[7] = 2
  /\ fk_flags[<<7, 0>>] = 1

(***************************************************************************)
(* Specification of the poison / unpoison round trip over one range.       *)
(***************************************************************************)
psOthers == <<scVars, hpVars, rpVars, alVars, fkVars, rgVars, cbVars, clVars, lcVars, mdVars, lgVars, sgVars, tlVars, qrVars, diVars>>

\* the application byte is addressable under shadow sh
ByteValid(sh, byte) ==
  LET b == sh[MemToShadow(byte)]
  IN  b = 0 \/ (b < 128 /\ byte % SHADOW_GRANULARITY < b)

\* UnpoisonRegion(addr, size): the range is made addressable
UnpoisonRegion(sh, addr, size) == PoisonRange(sh, addr, size, 0)

\* the range starts addressable or with granules poisoned by an earlier
\* user request
PsInit ==
  /\ ps_shadow \in [PsGranules -> {0, kAsanUserPoisonedMemoryMagic}]
  /\ ps_before = ps_shadow
  /\ ps_pc = "idle"
  /\ ps_range = NoRange
  /\ ps_rounds = 0
  /\ ScParked
  /\ HpParked
  /\ RpParked
  /\ AlParked
  /\ FkParked
  /\ RgParked
  /\ CbParked
  /\ ClParked
  /\ LcParked
  /\ MdParked
  /\ LgParked
  /\ SgParked
  /\ TlParked
  /\ QrParked
  /\ DiParked

\* PoisonRange(addr, size, value) on a granule-aligned addr
PsPoison(addr, size, value) ==
  /\ ps_pc = "idle"
  /\ ps_rounds < MaxPsRounds
  /\ addr + size - 1 \in PsBytes \/ size = 0
  /\ ps_rounds' = ps_rounds + 1
  /\ ps_before' = ps_shadow
  /\ ps_shadow' = PoisonRange(ps_shadow, addr, size, value)
  /\ ps_range' = [addr |-> addr, size |-> size, value |-> value]
  /\ ps_pc' = "poisoned"
  /\ UNCHANGED psOthers

\* UnpoisonRegion over the identical range
PsUnpoison ==
  /\ ps_pc = "poisoned"
  /\ ps_shadow' = UnpoisonRegion(ps_shadow, ps_range.addr, ps_range.size)
  /\ ps_pc' = "done"
  /\ UNCHANGED <<ps_before, ps_range, ps_rounds>>
  /\ UNCHANGED psOthers

\* the next round trip starts from the shadow the last one left
PsAgain ==
  /\ ps_pc = "done"
  /\ ps_pc' = "idle"
  /\ UNCHANGED <<ps_shadow, ps_before, ps_range, ps_rounds>>
  /\ UNCHANGED psOthers

PsNext ==
  \/ \E g \in PsGranules, size \in 0 .. PsNumGranules * SHADOW_GRANULARITY,
        value \in {kAsanUserPoisonedMemoryMagic, kAsanHeapFreeMagic} :
        PsPoison(g * SHADOW_GRANULARITY, size, value)
  \/ PsUnpoison
  \/ PsAgain

SpecPoison == PsInit /\ [][PsNext]_vars

InRange(byte) ==
  byte >= ps_range.addr /\ byte < ps_range.addr + ps_range.size

rgOthers == <<scVars, hpVars, rpVars, alVars, fkVars, psVars, cbVars, clVars, lcVars, mdVars, lgVars, sgVars, tlVars, qrVars, diVars>>

\* Size(class_id) of the Region's class, in units
RgSize == Size(RgMap(rg_map), rg_class) \div kUnit

\* x units <= kRegionSize
RgFits(x) ==
  \/ x \div kUnitsPerKb < RgRegionSizeKb(rg_map)
  \/ x \div kUnitsPerKb = RgRegionSizeKb(rg_map) /\ x % kUnitsPerKb = 0

\* the chunks the do-while loop pushes, the last pushed first
RECURSIVE RgPushed(_, _, _, _)
RgPushed(idx, end_idx, size, list) ==
  LET pushed == <<idx>> \o list
  IN  IF idx + size < end_idx
      THEN RgPushed(idx + size, end_idx, size, pushed)
      ELSE pushed

\* slip: the Region is never found exhausted
RgExhausted_Never(user, meta) == FALSE

\* allocated_user + allocated_meta > kRegionSize; the older header's
\* CHECK_LT fails from kRegionSize on
RgExhausted(user, meta) ==
  IF rg_ver = "allocator" THEN ~RgFits(user + meta)
  ELSE ~RgFits(user + meta + 1)

\* PopulateFreeList on an empty free list: the list, the four counters
\* and whether the call died (a failed CHECK or Die)
PopulateFreeList ==
  LET beg_idx == rg_allocated_user
      end_idx == beg_idx + kPopulateSize \div kUnit
      do_map == rg_ver = "allocator" /\ end_idx > rg_mapped_user
      check_user == do_map =>
                      rg_mapped_user + kUserMapSize \div kUnit > end_idx
      mapped_user == IF do_map /\ check_user
                     THEN rg_mapped_user + kUserMapSize \div kUnit
                     ELSE rg_mapped_user
      list == RgPushed(beg_idx, end_idx, RgSize, <<>>)
      user == beg_idx + Len(list) * RgSize
      meta == rg_allocated_meta + Len(list) * (rg_meta_size \div kUnit)
      do_meta == rg_ver = "allocator" /\ meta > rg_mapped_meta
      check_meta == do_meta =>
                      rg_mapped_meta + kMetaMapSize \div kUnit > meta
      mapped_meta == IF do_meta /\ check_meta
                     THEN rg_mapped_meta + kMetaMapSize \div kUnit
                     ELSE rg_mapped_meta
  IN  IF ~check_user
      THEN [list |-> <<>>, user |-> rg_allocated_user,
            mapped_user |-> rg_mapped_user, meta |-> rg_allocated_meta,
            mapped_meta |-> rg_mapped_meta, died |-> TRUE]
      ELSE [list |-> list, user |-> user, mapped_user |-> mapped_user,
            meta |-> meta, mapped_meta |-> mapped_meta,
            died |-> ~check_meta \/ RgExhausted(user, meta)]

\* the highest end among the chunks of a list, at least m
RECURSIVE RgMaxEnd(_, _)
RgMaxEnd(l, m) ==
  IF l = <<>> THEN m
  ELSE RgMaxEnd(Tail(l), IF Head(l) + RgSize > m THEN Head(l) + RgSize
                         ELSE m)

RgInit ==
  /\ \E r \in RgRegions :
       /\ rg_ver = r.ver
       /\ rg_map = r.map
       /\ rg_class = r.class_id
  /\ rg_meta_size \in {0, 16}
  /\ rg_free_list = <<>>
  /\ rg_allocated_user = 0
  /\ rg_mapped_user = 0
  /\ rg_allocated_meta = 0
  /\ rg_mapped_meta = 0
  /\ rg_pc = "run"
  /\ rg_out = <<>>
  /\ rg_max_end = 0
  /\ rg_calls = 0
  /\ ScParked
  /\ HpParked
  /\ RpParked
  /\ AlParked
  /\ FkParked
  /\ PsParked
  /\ CbParked
  /\ ClParked
  /\ LcParked
  /\ MdParked
  /\ LgParked
  /\ SgParked
  /\ TlParked
  /\ QrParked
  /\ DiParked

\* the refill of a call that finds the free list empty, then the taking
\* of chunks: max_count of them by BulkMove, or the front one if max_count
\* is 0
RgTake(max_count) ==
  LET p == IF rg_free_list = <<>> THEN PopulateFreeList
           ELSE [list |-> rg_free_list, user |-> rg_allocated_user,
                 mapped_user |-> rg_mapped_user,
                 meta |-> rg_allocated_meta,
                 mapped_meta |-> rg_mapped_meta, died |-> FALSE]
      m == IF max_count > 0 THEN BulkMove(max_count, p.list)
           ELSE [from |-> Tail(p.list), to |-> <<Head(p.list)>>]
  IN  /\ rg_allocated_user' = p.user
      /\ rg_mapped_user' = p.mapped_user
      /\ rg_allocated_meta' = p.meta
      /\ rg_mapped_meta' = p.mapped_meta
      /\ IF p.died
         THEN /\ rg_pc' = "died"
              /\ rg_free_list' = p.list
              /\ rg_out' = <<>>
              /\ rg_max_end' = rg_max_end
         ELSE /\ rg_pc' = "run"
              /\ rg_free_list' = m.from
              /\ rg_out' = m.to
              /\ rg_max_end' = RgMaxEnd(m.to, rg_max_end)

\* BulkAllocate(class_id, free_list) with the cache's empty list
RgBulkAllocate ==
  /\ rg_pc = "run"
  /\ rg_ver = "allocator"
  /\ rg_calls < MaxBulk
  /\ RgTake(MaxCached(RgMap(rg_map), rg_class))
  /\ rg_calls' = rg_calls + 1
  /\ UNCHANGED <<rg_ver, rg_map, rg_class, rg_meta_size>>
  /\ UNCHANGED rgOthers

\* AllocateBySizeClass(class_id) of the older header: one chunk is popped
RgAllocateBySizeClass ==
  /\ rg_pc = "run"
  /\ rg_ver = "allocator64"
  /\ rg_calls < MaxBulk
  /\ RgTake(0)
  /\ rg_calls' = rg_calls + 1
  /\ UNCHANGED <<rg_ver, rg_map, rg_class, rg_meta_size>>
  /\ UNCHANGED rgOthers

RgNext ==
  \/ RgBulkAllocate
  \/ RgAllocateBySizeClass

SpecRegion == RgInit /\ [][RgNext]_vars

\* C13: a refill that makes user chunks plus metadata exceed the Region's
\* reserved size ends the process, and the dying call hands out nothing;
\* every chunk handed out ends inside the Region and below the metadata
\* area (the allocated_meta bytes at the Region's far end)
C13_ExhaustionDiesFirst ==
  /\ rg_pc = "run" =>
       /\ RgFits(rg_allocated_user + rg_allocated_meta)
       /\ rg_max_end <= rg_allocated_user
       /\ RgFits(rg_max_end + rg_allocated_meta)
  /\ rg_pc = "died" =>
       /\ rg_out = <<>>
       /\ ~RgFits(rg_allocated_user + rg_allocated_meta + 1)

\* a Region has died of exhaustion after handing out chunks up to its end
C13_Witness ==
  /\ rg_pc = "died"
  /\ rg_max_end > 0
  /\ ~RgFits(rg_max_end + RgSize + rg_allocated_meta)

\* C19: after each PopulateFreeList the chunks carved out of the Region
\* lie inside its mapped user memory: allocated_user <= mapped_user
C19_AllocatedWithinMapped ==
  (rg_ver = "allocator" /\ rg_pc = "run")
    => rg_allocated_user <= rg_mapped_user

(***************************************************************************)
(* Specification of CombinedAllocator::Allocate and Deallocate on          *)
(* addresses: one request is served and its pointer released.              *)
(***************************************************************************)
cbOthers == <<scVars, hpVars, rpVars, alVars, fkVars, psVars, rgVars, clVars, lcVars, mdVars, lgVars, sgVars, tlVars, qrVars, diVars>>

\* kRegionSize / 2^30
CbRegionSizeHi == kSpaceSizeHi \div kNumClasses(CbMap(cb_map))

\* slip: the pointer is compared Region by Region
CbPointerIsMine_Region(p) ==
  p.hi \div CbRegionSizeHi = kSpaceBegHi \div CbRegionSizeHi

\* p / kSpaceSize == kSpaceBeg / kSpaceSize
CbPointerIsMine(p) ==
  p.hi \div kSpaceSizeHi = kSpaceBegHi \div kSpaceSizeHi

\* (p / kRegionSize) % kNumClasses
CbGetSizeClass(p) ==
  (p.hi \div CbRegionSizeHi) % kNumClasses(CbMap(cb_map))

\* the chunk idx of the class: region_beg + idx * size
CbChunk(class_id, idx) ==
  AddrAdd([hi |-> kSpaceBegHi + CbRegionSizeHi * class_id, lo |-> 0],
          idx * Size(CbMap(cb_map), class_id))

\* the mapping [map_beg, map_beg + map_size) lies outside the space Init
\* has mapped for the primary, [kSpaceBeg, kSpaceEnd + AdditionalSize())
CbMappable(map_beg, map_size) ==
  \/ AddrLeq(AddrAdd(map_beg, map_size), [hi |-> kSpaceBegHi, lo |-> 0])
  \/ AddrLeq([hi |-> kSpaceBegHi + kSpaceSizeHi, lo |-> kPageSize],
             map_beg)

\* p & (alignment - 1) == 0, for an alignment up to 2^30
CbAligned(p, alignment) == p.lo % alignment = 0

\* slip: the mapping's second page is returned as it is
CbLargeAlign_None(map_beg, alignment) == AddrAdd(map_beg, kPageSize)

\* LargeMmapAllocator::Allocate: res = map_beg + page_size_, aligned up
CbLargeAlign(map_beg, alignment) ==
  LET res == AddrAdd(map_beg, kPageSize)
  IN  IF res.lo % alignment # 0
      THEN AddrAdd(res, alignment - (res.lo % alignment))
      ELSE res

CbInit ==
  /\ cb_map \in CbMaps
  /\ cb_pc = "idle"
  /\ cb_size = 0
  /\ cb_alignment = 0
  /\ cb_res = NullAddr
  /\ cb_from = "none"
  /\ cb_class = 0
  /\ cb_checked = TRUE
  /\ cb_to = "none"
  /\ cb_to_class = 0
  /\ ScParked
  /\ HpParked
  /\ RpParked
  /\ AlParked
  /\ FkParked
  /\ PsParked
  /\ RgParked
  /\ ClParked
  /\ LcParked
  /\ MdParked
  /\ LgParked
  /\ SgParked
  /\ TlParked
  /\ QrParked
  /\ DiParked

\* Allocate(cache, size, alignment): idx is the chunk the cache pops,
\* map_beg the address mmap returns
CbAllocate(size0, alignment, idx, map_beg) ==
  /\ cb_pc = "idle"
  /\ cb_size' = size0
  /\ cb_alignment' = alignment
  /\ cb_pc' = "allocated"
  /\ LET size1 == IF size0 = 0 THEN 1 ELSE size0
         size == IF alignment > 8 THEN RoundUpTo(size1, alignment)
                 ELSE size1
         m == CbMap(cb_map)
         map_size == IF alignment > kPageSize
                     THEN RoundUpMapSize(size) + alignment
                     ELSE RoundUpMapSize(size)
     IN  IF ULess(size1 + alignment, size1)
         THEN /\ cb_res' = NullAddr
              /\ cb_from' = "null"
              /\ cb_class' = 0
              /\ cb_checked' = TRUE
         ELSE IF ULeq(size, kMaxSize(m)) /\ ULeq(alignment, kMaxSize(m))
         THEN /\ cb_res' = CbChunk(ClassID(m, size), idx)
              /\ cb_from' = "primary"
              /\ cb_class' = ClassID(m, size)
              /\ cb_checked' = (alignment > 8 =>
                                  CbAligned(cb_res', alignment))
         ELSE IF ULess(map_size, size)
         THEN /\ cb_res' = NullAddr
              /\ cb_from' = "null"
              /\ cb_class' = 0
              /\ cb_checked' = TRUE
         ELSE /\ map_size > 0 /\ map_size < kAddrLo
              /\ CbMappable(map_beg, map_size)
              /\ cb_res' = CbLargeAlign(map_beg, alignment)
              /\ cb_from' = "secondary"
              /\ cb_class' = 0
              /\ cb_checked' = (alignment > 8 =>
                                  CbAligned(cb_res', alignment))
  /\ UNCHANGED <<cb_map, cb_to, cb_to_class>>
  /\ UNCHANGED cbOthers

\* Deallocate(cache, p) with the pointer Allocate returned
CbDeallocate ==
  /\ cb_pc = "allocated"
  /\ cb_pc' = "freed"
  /\ IF cb_res = NullAddr
     THEN /\ cb_to' = "none"
          /\ cb_to_class' = 0
     ELSE IF CbPointerIsMine(cb_res)
     THEN /\ cb_to' = "primary"
          /\ cb_to_class' = CbGetSizeClass(cb_res)
     ELSE /\ cb_to' = "secondary"
          /\ cb_to_class' = 0
  /\ UNCHANGED <<cb_map, cb_size, cb_alignment, cb_res, cb_from, cb_class,
                 cb_checked>>
  /\ UNCHANGED cbOthers

\* the next request
CbAgain ==
  /\ cb_pc = "freed"
  /\ cb_pc' = "idle"
  /\ cb_size' = 0
  /\ cb_alignment' = 0
  /\ cb_res' = NullAddr
  /\ cb_from' = "none"
  /\ cb_class' = 0
  /\ cb_checked' = TRUE
  /\ cb_to' = "none"
  /\ cb_to_class' = 0
  /\ UNCHANGED cb_map
  /\ UNCHANGED cbOthers

CbNext ==
  \/ \E size \in CbSizes, alignment \in CbAlignments,
        idx \in 0 .. MaxChunkIdx, map_beg \in CbMmapAddrs :
       CbAllocate(size, alignment, idx, map_beg)
  \/ CbDeallocate
  \/ CbAgain

SpecCombined == CbInit /\ [][CbNext]_vars

\* C14: a non-null pointer returned by Allocate is released by Deallocate
\* to the backend that produced it, a primary chunk to its own class
C14_ReleasedToItsBackend ==
  (cb_pc = "freed" /\ cb_res # NullAddr) =>
    /\ cb_to = cb_from
    /\ cb_from = "primary" => cb_to_class = cb_class

\* a pointer of the secondary whose mapping ends where the primary's
\* space begins was released to the secondary
C14_Witness ==
  /\ cb_pc = "freed"
  /\ cb_from = "secondary"
  /\ cb_to = "secondary"
  /\ cb_res.hi = kSpaceBegHi - 1

\* C15: Allocate returns null or a pointer that is a multiple of the
\* alignment, and its CHECK_EQ on the alignment holds
C15_ResultAligned ==
  cb_pc = "allocated" =>
    /\ cb_checked
    /\ cb_res = NullAddr \/ CbAligned(cb_res, cb_alignment)

\* a request of 1536 bytes aligned to 512 was served from a primary chunk
\* other than the first, and a request aligned to 8192 by the secondary
\* from a mapping that does not begin on a multiple of 8192
C15_Witness ==
  /\ cb_pc = "allocated"
  /\ \/ /\ cb_from = "primary"
        /\ cb_size = 1536
        /\ cb_alignment = 512
        /\ cb_res.lo > 0
     \/ /\ cb_from = "secondary"
        /\ cb_alignment = 8192
        /\ cb_res.lo % 8192 = 0
        /\ cb_res.lo = 8192

(***************************************************************************)
(* Specification of the classifier: one access is reported against a      *)
(* shadow drawn from ClBytes.                                              *)
(***************************************************************************)
clOthers == <<scVars, hpVars, rpVars, alVars, fkVars, psVars, rgVars, cbVars, lcVars, mdVars, lgVars, sgVars, tlVars, qrVars, diVars>>

\* slip: the next shadow byte is read only when the access crosses the end
\* of the granule of addr
SelectedShadow_StraddleOnly(sh, addr, access_size) ==
  IF (addr % SHADOW_GRANULARITY) + access_size > SHADOW_GRANULARITY
  THEN MemToShadow(addr) + 1 ELSE MemToShadow(addr)

\* the granule whose shadow byte the switch reads
SelectedShadow(sh, addr, access_size) ==
  LET a0 == MemToShadow(addr)
      a1 == IF ShadowAt(sh, a0) = 0 /\ access_size > SHADOW_GRANULARITY
            THEN a0 + 1 ELSE a0
  IN  IF ShadowAt(sh, a1) > 0 /\ ShadowAt(sh, a1) < 128
      THEN a1 + 1 ELSE a1

\* the granules below ClNumGranules are drawn freely, the two after them
\* are a right redzone
ClInit ==
  /\ \E low \in [0 .. ClNumGranules - 1 -> ClBytes] :
       cl_shadow = [g \in 0 .. ClNumGranules + 1 |->
                      IF g < ClNumGranules THEN low[g]
                      ELSE kAsanHeapRightRedzoneMagic]
  /\ cl_fault = NoFault
  /\ cl_byte = 0
  /\ cl_kind = "none"
  /\ cl_pc = "idle"
  /\ ScParked
  /\ HpParked
  /\ RpParked
  /\ AlParked
  /\ FkParked
  /\ PsParked
  /\ RgParked
  /\ CbParked
  /\ LcParked
  /\ MdParked
  /\ LgParked
  /\ SgParked
  /\ TlParked
  /\ QrParked
  /\ DiParked

\* __asan_report_error(pc, bp, sp, addr, is_write, access_size) up to the
\* end of the switch
ClReport(addr, access_size) ==
  /\ cl_pc = "idle"
  /\ cl_fault' = [addr |-> addr, is_write |-> FALSE,
                  access_size |-> access_size]
  /\ cl_kind' = IF AddrIsInMem(addr)
                THEN BugDescr(cl_shadow, addr, access_size)
                ELSE "unknown-crash"
  /\ cl_byte' = IF AddrIsInMem(addr)
                THEN ShadowAt(cl_shadow,
                              SelectedShadow(cl_shadow, addr, access_size))
                ELSE 0
  /\ cl_pc' = "done"
  /\ UNCHANGED cl_shadow
  /\ UNCHANGED clOthers

ClNext ==
  \E addr \in {0, 5, SHADOW_GRANULARITY, MemBytes + 64},
     access_size \in {1, SHADOW_GRANULARITY, 2 * SHADOW_GRANULARITY} :
    ClReport(addr, access_size)

SpecClassify == ClInit /\ [][ClNext]_vars

\* the bug kind the classification table gives for a shadow byte
KindOfShadow(b) ==
  CASE b = kAsanHeapLeftRedzoneMagic -> "heap-buffer-overflow"
    [] b = kAsanHeapRightRedzoneMagic -> "heap-buffer-overflow"
    [] b = kAsanHeapFreeMagic -> "heap-use-after-free"
    [] b = kAsanStackLeftRedzoneMagic -> "stack-buffer-underflow"
    [] b = kAsanStackMidRedzoneMagic -> "stack-buffer-overflow"
    [] b = kAsanStackRightRedzoneMagic -> "stack-buffer-overflow"
    [] b = kAsanStackPartialRedzoneMagic -> "stack-buffer-overflow"
    [] b = kAsanStackAfterReturnMagic -> "stack-use-after-return"
    [] b = kAsanUserPoisonedMemoryMagic -> "use-after-poison"
    [] b = kAsanGlobalRedzoneMagic -> "global-buffer-overflow"
    [] OTHER -> "unknown-crash"

\* C16: for a tracked address the bug kind is determined by the selected
\* shadow byte alone, by the table of the magics; an untracked address
\* gives unknown-crash
C16_KindFromSelectedByte ==
  cl_pc = "done" =>
    IF AddrIsInMem(cl_fault.addr)
    THEN cl_kind = KindOfShadow(cl_byte)
    ELSE cl_kind = "unknown-crash"

\* a 16-byte access to an addressable granule followed by a partially
\* addressable one was classified by the byte two granules on
C16_Witness ==
  /\ cl_pc = "done"
  /\ cl_fault.addr = 0
  /\ cl_fault.access_size = 2 * SHADOW_GRANULARITY
  /\ cl_shadow[0] = 0
  /\ cl_shadow[1] = 3
  /\ cl_byte = kAsanHeapRightRedzoneMagic
  /\ cl_kind = "heap-buffer-overflow"

\* the access crosses the end of the granule of addr
Straddles(addr, access_size) ==
  (addr % SHADOW_GRANULARITY) + access_size > SHADOW_GRANULARITY

\* C25: the classifier consults a second shadow byte only when the access
\* straddles a granule boundary; for an access inside one granule the kind
\* is decided from that granule's own shadow byte
C25_SecondByteOnlyWhenStraddling ==
  cl_pc = "done" /\ AddrIsInMem(cl_fault.addr) =>
    LET g0 == MemToShadow(cl_fault.addr)
    IN  ~Straddles(cl_fault.addr, cl_fault.access_size) =>
          /\ cl_byte = cl_shadow[g0]
          /\ cl_kind = KindOfShadow(cl_shadow[g0])

\* C25 (amended): the classifier moves to the next shadow byte when the
\* byte of addr is 0 and access_size exceeds the granule, and then once
\* more when the byte reached is a partial one (1..127), whether or not the
\* access straddles a granule boundary; a byte of 128 or more at addr, or
\* a 0 with access_size within the granule size, decides by itself
C25_SecondByteWhenZeroOrPartial ==
  cl_pc = "done" /\ AddrIsInMem(cl_fault.addr) =>
    LET g0 == MemToShadow(cl_fault.addr)
        b0 == cl_shadow[g0]
        b1 == cl_shadow[g0 + 1]
    IN  /\ b0 >= 128 => cl_byte = b0
        /\ b0 = 0 /\ cl_fault.access_size <= SHADOW_GRANULARITY =>
             cl_byte = 0
        /\ b0 > 0 /\ b0 < 128 => cl_byte = b1
        /\ b0 = 0 /\ cl_fault.access_size > SHADOW_GRANULARITY =>
             cl_byte = IF b1 > 0 /\ b1 < 128 THEN cl_shadow[g0 + 2] ELSE b1

\* a one-byte access inside a partially addressable granule was classified
\* by the shadow byte of the next granule
C25_Witness ==
  /\ cl_pc = "done"
  /\ cl_fault.addr = 5
  /\ cl_fault.access_size = 1
  /\ cl_shadow[0] = 3
  /\ cl_shadow[1] = kAsanHeapRightRedzoneMagic
  /\ cl_byte = kAsanHeapRightRedzoneMagic
  /\ cl_kind = "heap-buffer-overflow"

(***************************************************************************)
(* Specification of the local caches: threads allocate and deallocate      *)
(* chunks of one class; the Region's free list is touched under its lock,  *)
(* so BulkAllocate and BulkDeallocate are single steps.                    *)
(***************************************************************************)
lcOthers == <<scVars, hpVars, rpVars, alVars, fkVars, psVars, rgVars, cbVars, clVars, mdVars, lgVars, sgVars, tlVars, qrVars, diVars>>

\* slip: the cache is drained only when it has grown beyond the threshold
NeedsDrain_Strict(size, class_id) ==
  size > 2 * MaxCached(CompactSizeClassMap, class_id)

\* Deallocate: free_list->size() >= 2 * SizeClassMap::MaxCached(class_id)
NeedsDrain(size, class_id) ==
  size >= 2 * MaxCached(CompactSizeClassMap, class_id)

\* slip: the drained half stays in the cache as well
DrainHalf_KeepsCache(free_list) ==
  LET count == Len(free_list) \div 2
  IN  [cache |-> free_list,
       half |-> Reverse(SubSeq(free_list, 1, count))]

\* DrainHalf: count = size / 2 nodes are popped from the front and pushed
\* to the front of half
DrainHalf(free_list) ==
  LET count == Len(free_list) \div 2
  IN  [cache |-> SubSeq(free_list, count + 1, Len(free_list)),
       half |-> Reverse(SubSeq(free_list, 1, count))]

\* number of times chunk c occurs in list l
RECURSIVE Occurrences(_, _)
Occurrences(l, c) ==
  IF l = <<>> THEN 0
  ELSE (IF Head(l) = c THEN 1 ELSE 0) + Occurrences(Tail(l), c)

LcInit ==
  /\ lc_free_list = <<>>
  /\ lc_carved = 0
  /\ lc_cache = [t \in CacheThreads |-> <<>>]
  /\ lc_hold = <<>>
  /\ lc_pc = [t \in CacheThreads |-> "idle"]
  /\ lc_drained = NoDrain
  /\ lc_ops = 0
  /\ ScParked
  /\ HpParked
  /\ RpParked
  /\ AlParked
  /\ FkParked
  /\ PsParked
  /\ RgParked
  /\ CbParked
  /\ ClParked
  /\ MdParked
  /\ LgParked
  /\ SgParked
  /\ TlParked
  /\ QrParked
  /\ DiParked

\* the caller gets the front of the cache
LcHand(t, cache) ==
  /\ lc_cache' = [lc_cache EXCEPT ![t] = Tail(cache)]
  /\ lc_hold' = [lc_hold EXCEPT ![Head(cache) + 1] = @ + 1]

\* cache.Allocate(allocator, class_id): a non-empty cache serves the call
LcAllocate(t) ==
  /\ lc_pc[t] = "idle"
  /\ lc_ops < MaxCacheOps
  /\ lc_ops' = lc_ops + 1
  /\ IF lc_cache[t] = <<>>
     THEN /\ lc_pc' = [lc_pc EXCEPT ![t] = "bulk"]
          /\ UNCHANGED <<lc_cache, lc_hold>>
     ELSE /\ LcHand(t, lc_cache[t])
          /\ UNCHANGED lc_pc
  /\ UNCHANGED <<lc_free_list, lc_carved, lc_drained>>
  /\ UNCHANGED lcOthers

\* BulkAllocate under the Region's lock: PopulateFreeList if the free list
\* is empty, then BulkMove of MaxCached chunks into the cache
LcBulkAllocate(t) ==
  /\ lc_pc[t] = "bulk"
  /\ LET refill == lc_free_list = <<>>
         list == IF refill
                 THEN Populated(lc_carved * kClassSize,
                                lc_carved * kClassSize + kPopulateSize,
                                <<>>)
                 ELSE lc_free_list
         m == BulkMove(MaxCached(CompactSizeClassMap, kClassId), list)
     IN  /\ lc_free_list' = m.from
         /\ lc_cache' = [lc_cache EXCEPT ![t] = m.to]
         /\ lc_carved' = IF refill THEN lc_carved + Len(list) ELSE lc_carved
         /\ lc_hold' = IF refill
                       THEN lc_hold \o [i \in 1 .. Len(list) |-> 0]
                       ELSE lc_hold
  /\ lc_pc' = [lc_pc EXCEPT ![t] = "pop"]
  /\ UNCHANGED <<lc_drained, lc_ops>>
  /\ UNCHANGED lcOthers

\* cache.Allocate after BulkAllocate: the front of the cache is returned
LcPop(t) ==
  /\ lc_pc[t] = "pop"
  /\ lc_cache[t] # <<>>
  /\ LcHand(t, lc_cache[t])
  /\ lc_pc' = [lc_pc EXCEPT ![t] = "idle"]
  /\ UNCHANGED <<lc_free_list, lc_carved, lc_drained, lc_ops>>
  /\ UNCHANGED lcOthers

\* cache.Deallocate(allocator, class_id, p) by a caller that holds p: the
\* push and the test of the threshold
LcDeallocate(t, p) ==
  /\ lc_pc[t] = "idle"
  /\ lc_ops < MaxCacheOps
  /\ lc_hold[p + 1] > 0
  /\ lc_ops' = lc_ops + 1
  /\ lc_hold' = [lc_hold EXCEPT ![p + 1] = @ - 1]
  /\ lc_cache' = [lc_cache EXCEPT ![t] = <<p>> \o @]
  /\ lc_pc' = [lc_pc EXCEPT ![t] =
       IF NeedsDrain(Len(lc_cache'[t]), kClassId) THEN "drain" ELSE "idle"]
  /\ UNCHANGED <<lc_free_list, lc_carved, lc_drained>>
  /\ UNCHANGED lcOthers

\* DrainHalf: half of the cache goes to the Region's free list by one
\* BulkDeallocate under the Region's lock
LcDrainHalf(t) ==
  /\ lc_pc[t] = "drain"
  /\ LET d == DrainHalf(lc_cache[t])
     IN  /\ lc_cache' = [lc_cache EXCEPT ![t] = d.cache]
         /\ lc_free_list' = d.half \o lc_free_list
         /\ lc_drained' = [len |-> Len(lc_cache[t]), moved |-> Len(d.half)]
  /\ lc_pc' = [lc_pc EXCEPT ![t] = "idle"]
  /\ UNCHANGED <<lc_carved, lc_hold, lc_ops>>
  /\ UNCHANGED lcOthers

LcNext ==
  \/ \E t \in CacheThreads : LcAllocate(t)
  \/ \E t \in CacheThreads : LcBulkAllocate(t)
  \/ \E t \in CacheThreads : LcPop(t)
  \/ \E t \in CacheThreads : \E p \in 0 .. lc_carved - 1 : LcDeallocate(t, p)
  \/ \E t \in CacheThreads : LcDrainHalf(t)

SpecCache == LcInit /\ [][LcNext]_vars

\* number of times chunk c occurs in the caches of threads 1 .. n
RECURSIVE InCaches(_, _)
InCaches(n, c) ==
  IF n = 0 THEN 0
  ELSE Occurrences(lc_cache[n], c) + InCaches(n - 1, c)

\* number of places chunk c is in: the free list, the caches, the callers
LcPlaces(c) ==
  Occurrences(lc_free_list, c) + lc_hold[c + 1]
    + InCaches(NumCacheThreads, c)

\* C17: every chunk carved out of the Region is in exactly one place: the
\* Region's free list, one thread's cache, or the hands of one caller
C17_ChunkInOnePlace ==
  \A c \in 0 .. lc_carved - 1 : LcPlaces(c) = 1

\* two callers hold a chunk each while, after a drain, other chunks lie
\* in a cache and on the Region's free list
C17_Witness ==
  /\ \E c, d \in 0 .. lc_carved - 1 :
       c # d /\ lc_hold[c + 1] = 1 /\ lc_hold[d + 1] = 1
  /\ \E t \in CacheThreads : lc_cache[t] # <<>>
  /\ lc_free_list # <<>>
  /\ lc_drained # NoDrain

\* C18: Deallocate drains half of the cache if and only if its length
\* after the push is strictly greater than 2 * MaxCached(class_id)
C18_DrainsAboveTwiceMaxCached ==
  /\ \A t \in CacheThreads :
       lc_pc[t] = "drain" =>
         Len(lc_cache[t]) > 2 * MaxCached(CompactSizeClassMap, kClassId)
  /\ \A t \in CacheThreads :
       lc_pc[t] = "idle" =>
         Len(lc_cache[t]) <= 2 * MaxCached(CompactSizeClassMap, kClassId)

\* C18 (amended): Deallocate drains half of the cache if and only if its
\* length after the push is at least 2 * MaxCached(class_id); the drain
\* moves size / 2 chunks to the Region's free list in one batch, so a
\* cache at rest is shorter than 2 * MaxCached(class_id)
C18_DrainsFromTwiceMaxCached ==
  /\ \A t \in CacheThreads :
       lc_pc[t] = "drain" =>
         Len(lc_cache[t]) >= 2 * MaxCached(CompactSizeClassMap, kClassId)
  /\ \A t \in CacheThreads :
       lc_pc[t] = "idle" =>
         Len(lc_cache[t]) < 2 * MaxCached(CompactSizeClassMap, kClassId)
  /\ lc_drained # NoDrain =>
       /\ lc_drained.len >= 2 * MaxCached(CompactSizeClassMap, kClassId)
       /\ lc_drained.moved = lc_drained.len \div 2

\* a cache that reached exactly 2 * MaxCached chunks was drained
C18_Witness ==
  /\ lc_drained.len = 2 * MaxCached(CompactSizeClassMap, kClassId)
  /\ lc_drained.moved = MaxCached(CompactSizeClassMap, kClassId)
  /\ \A t \in CacheThreads : lc_pc[t] = "idle"

(***************************************************************************)
(* Specification of GetMetaData: the metadata of two chunks of a Region    *)
(* is looked up.                                                           *)
(***************************************************************************)
mdOthers == <<scVars, hpVars, rpVars, alVars, fkVars, psVars, rgVars, cbVars, clVars, lcVars, lgVars, sgVars, tlVars, qrVars, diVars>>

\* Size(class_id) of the Region's class, in units
MdSize == Size(RgMap(md_map), md_class) \div kUnit

\* x units <= kRegionSize
MdFits(x) ==
  \/ x \div kUnitsPerKb < RgRegionSizeKb(md_map)
  \/ x \div kUnitsPerKb = RgRegionSizeKb(md_map) /\ x % kUnitsPerKb = 0

\* slip: the offset is kept at full width
GetChunkIdx_FullWidth(offset, size) == offset \div size

\* GetChunkIdx(chunk, size): u32 offset = chunk % kRegionSize, then
\* offset / (u32)size; offset and size in units
GetChunkIdx(offset, size) == (offset % kU32Units) \div size

\* GetMetaData(p) for the chunk in slot k, as the distance in bytes from
\* the end of the Region: (1 + chunk_idx) * kMetadataSize
GetMetaData(k) ==
  (1 + GetChunkIdx(k * MdSize, MdSize)) * md_meta_size

\* the Region can hold the chunks up to slot k with their metadata:
\* allocated_user + allocated_meta <= kRegionSize
MdHandedOut(k) ==
  MdFits((k + 1) * MdSize + (k + 1) * (md_meta_size \div kUnit))

\* slots of chunks the Region hands out
MdSlots ==
  {k \in (0 .. MdMaxSlot)
           \cup {kU32Units \div MdSize + i : i \in 0 .. MdMaxSlot} :
     MdHandedOut(k)}

MdInit ==
  /\ \E r \in RgRegions :
       /\ r.ver = "allocator"
       /\ md_map = r.map
       /\ md_class = r.class_id
  /\ md_meta_size \in {16, 64}
  /\ md_slots = <<>>
  /\ md_meta = <<>>
  /\ md_pc = "idle"
  /\ ScParked
  /\ HpParked
  /\ RpParked
  /\ AlParked
  /\ FkParked
  /\ PsParked
  /\ RgParked
  /\ CbParked
  /\ ClParked
  /\ LcParked
  /\ LgParked
  /\ SgParked
  /\ TlParked
  /\ QrParked
  /\ DiParked

\* GetMetaData(p) and GetMetaData(q) for the chunks in slots k1 and k2
MdGetMetaData(k1, k2) ==
  /\ md_pc = "idle"
  /\ md_slots' = <<k1, k2>>
  /\ md_meta' = <<GetMetaData(k1), GetMetaData(k2)>>
  /\ md_pc' = "done"
  /\ UNCHANGED <<md_map, md_class, md_meta_size>>
  /\ UNCHANGED mdOthers

\* the next pair of chunks
MdAgain ==
  /\ md_pc = "done"
  /\ md_slots' = <<>>
  /\ md_meta' = <<>>
  /\ md_pc' = "idle"
  /\ UNCHANGED <<md_map, md_class, md_meta_size>>
  /\ UNCHANGED mdOthers

MdNext ==
  \/ \E k1 \in MdSlots, k2 \in MdSlots : MdGetMetaData(k1, k2)
  \/ MdAgain

SpecMeta == MdInit /\ [][MdNext]_vars

\* C20: GetMetaData(p) is determined by the Region and the slot index of
\* p: the block of slot k ends k * kMetadataSize below the Region's end;
\* the blocks of distinct chunks are disjoint, lie inside the Region and
\* above the bytes of every chunk handed out
C20_MetaDataDisjoint ==
  md_pc = "done" =>
    /\ \A i \in 1 .. 2 : md_meta[i] = (1 + md_slots[i]) * md_meta_size
    /\ md_slots[1] # md_slots[2] =>
         \/ md_meta[1] + md_meta_size <= md_meta[2]
         \/ md_meta[2] + md_meta_size <= md_meta[1]
    /\ \A i, j \in 1 .. 2 :
         MdFits((md_slots[j] + 1) * MdSize + md_meta[i] \div kUnit)

(***************************************************************************)
(* Specification of the large allocator: threads call Allocate,            *)
(* Deallocate and PointerIsMine concurrently.                              *)
(***************************************************************************)
lgOthers == <<scVars, hpVars, rpVars, alVars, fkVars, psVars, rgVars, cbVars, clVars, lcVars, mdVars, sgVars, tlVars, qrVars, diVars>>

\* GetHeader(p): p - page_size_
LgGetHeader(p) == p - kPageSize

\* GetUser(h): h + page_size_
LgGetUser(h) == h + kPageSize

\* the pages of a mapping
LgPagesOf(m) == {a \in LgPageAddrs : m.beg <= a /\ a < m.beg + m.size}

\* the pages some mapping covers
LgMappedPages == UNION {LgPagesOf(m) : m \in lg_mapped}

\* the addresses MmapOrDie may return for map_size bytes: any run of pages
\* of the address space that no mapping covers
LgMmapAddrs(map_size) ==
  {a \in LgPageAddrs :
     /\ a + map_size <= (LgNumPages + 1) * kPageSize
     /\ LgPagesOf([beg |-> a, size |-> map_size]) \cap LgMappedPages = {}}

\* slip: the lock is taken without waiting for its holder
LgLockFree_Always == TRUE

\* SpinMutexLock l(&mutex_) can be entered
LgLockFree == lg_mutex_ = 0

\* the headers reached from h by following next, at most n of them
RECURSIVE LgWalk(_, _)
LgWalk(h, n) ==
  IF h = 0 \/ n = 0 THEN <<>> ELSE <<h>> \o LgWalk(lg_hdr[h].next, n - 1)

\* the list from list_ on
LgList == LgWalk(lg_list_, LgNumPages + 1)

\* PointerIsMine(p): the fast check, then the scan of the list
LgPointerIsMineOf(p) ==
  IF p % kPageSize # 0 THEN FALSE
  ELSE \E i \in 1 .. Len(LgList) : LgGetUser(LgList[i]) = p

LgInit ==
  /\ lg_mapped = {}
  /\ lg_hdr = [a \in LgPageAddrs |-> ZeroHeader]
  /\ lg_list_ = 0
  /\ lg_mutex_ = 0
  /\ lg_pc = [t \in LargeThreads |-> "idle"]
  /\ lg_call = [t \in LargeThreads |-> NoLgCall]
  /\ lg_owned = [t \in LargeThreads |-> {}]
  /\ lg_linked = {}
  /\ lg_ops = 0
  /\ ScParked
  /\ HpParked
  /\ RpParked
  /\ AlParked
  /\ FkParked
  /\ PsParked
  /\ RgParked
  /\ CbParked
  /\ ClParked
  /\ LcParked
  /\ MdParked
  /\ SgParked
  /\ TlParked
  /\ QrParked
  /\ DiParked

\* Allocate(size, alignment) up to the lock: the mapping is made at
\* map_beg, res is aligned and the header's size fields are written
LgAllocate(t, size, alignment, map_beg) ==
  /\ lg_pc[t] = "idle"
  /\ lg_ops < MaxLargeOps
  /\ LET map_size == IF alignment > kPageSize
                     THEN RoundUpMapSize(size) + alignment
                     ELSE RoundUpMapSize(size)
         res0 == map_beg + kPageSize
         res == IF res0 % alignment # 0
                THEN res0 + (alignment - (res0 % alignment))
                ELSE res0
         h == LgGetHeader(res)
     IN  /\ map_beg \in LgMmapAddrs(map_size)
         /\ res % alignment = 0
         /\ res + size <= map_beg + map_size
         /\ lg_mapped' = lg_mapped \cup {[beg |-> map_beg, size |-> map_size]}
         /\ lg_hdr' = [a \in LgPageAddrs |->
                         IF a = h
                         THEN [ZeroHeader EXCEPT !.size = size,
                                                 !.map_beg = map_beg,
                                                 !.map_size = map_size]
                         ELSE IF a \in LgPagesOf([beg |-> map_beg,
                                                  size |-> map_size])
                         THEN ZeroHeader
                         ELSE lg_hdr[a]]
         /\ lg_call' = [lg_call EXCEPT ![t] =
                          [NoLgCall EXCEPT !.op = "Allocate", !.size = size,
                                           !.alignment = alignment,
                                           !.res = res, !.h = h]]
  /\ lg_pc' = [lg_pc EXCEPT ![t] = "lock"]
  /\ lg_ops' = lg_ops + 1
  /\ UNCHANGED <<lg_list_, lg_mutex_, lg_owned, lg_linked>>
  /\ UNCHANGED lgOthers

\* SpinMutexLock l(&mutex_) of Allocate and of Deallocate
LgLock(t) ==
  /\ lg_pc[t] = "lock"
  /\ LgLockFree
  /\ lg_mutex_' = t
  /\ lg_pc' = [lg_pc EXCEPT ![t] =
                 IF lg_call[t].op = "Allocate" THEN "link" ELSE "unlink"]
  /\ UNCHANGED <<lg_mapped, lg_hdr, lg_list_, lg_call, lg_owned, lg_linked, lg_ops>>
  /\ UNCHANGED lgOthers

\* h->next = list_; h->prev = 0
LgLink(t) ==
  /\ lg_pc[t] = "link"
  /\ lg_hdr' = [lg_hdr EXCEPT ![lg_call[t].h].next = lg_list_,
                              ![lg_call[t].h].prev = 0]
  /\ lg_pc' = [lg_pc EXCEPT ![t] = "link_prev"]
  /\ UNCHANGED <<lg_mapped, lg_list_, lg_mutex_, lg_call, lg_owned, lg_linked, lg_ops>>
  /\ UNCHANGED lgOthers

\* if (list_) list_->prev = h
LgLinkPrev(t) ==
  /\ lg_pc[t] = "link_prev"
  /\ lg_hdr' = IF lg_list_ # 0
               THEN [lg_hdr EXCEPT ![lg_list_].prev = lg_call[t].h]
               ELSE lg_hdr
  /\ lg_pc' = [lg_pc EXCEPT ![t] = "link_head"]
  /\ UNCHANGED <<lg_mapped, lg_list_, lg_mutex_, lg_call, lg_owned, lg_linked, lg_ops>>
  /\ UNCHANGED lgOthers

\* list_ = h, and the lock is released
LgLinkHead(t) ==
  /\ lg_pc[t] = "link_head"
  /\ lg_list_' = lg_call[t].h
  /\ lg_mutex_' = 0
  /\ lg_linked' = lg_linked \cup {lg_call[t].res}
  /\ lg_pc' = [lg_pc EXCEPT ![t] = "return"]
  /\ UNCHANGED <<lg_mapped, lg_hdr, lg_call, lg_owned, lg_ops>>
  /\ UNCHANGED lgOthers

\* return reinterpret_cast<void*>(res)
LgAllocated(t) ==
  /\ lg_pc[t] = "return"
  /\ lg_owned' = [lg_owned EXCEPT ![t] = @ \cup {lg_call[t].res}]
  /\ lg_call' = [lg_call EXCEPT ![t] = NoLgCall]
  /\ lg_pc' = [lg_pc EXCEPT ![t] = "idle"]
  /\ UNCHANGED <<lg_mapped, lg_hdr, lg_list_, lg_mutex_, lg_linked, lg_ops>>
  /\ UNCHANGED lgOthers

\* Deallocate(p) up to the lock: Header *h = GetHeader(p)
LgDeallocate(t, p) ==
  /\ lg_pc[t] = "idle"
  /\ lg_ops < MaxLargeOps
  /\ p \in lg_owned[t]
  /\ lg_owned' = [lg_owned EXCEPT ![t] = @ \ {p}]
  /\ lg_call' = [lg_call EXCEPT ![t] =
                   [NoLgCall EXCEPT !.op = "Deallocate", !.res = p,
                                    !.h = LgGetHeader(p)]]
  /\ lg_pc' = [lg_pc EXCEPT ![t] = "lock"]
  /\ lg_ops' = lg_ops + 1
  /\ UNCHANGED <<lg_mapped, lg_hdr, lg_list_, lg_mutex_, lg_linked>>
  /\ UNCHANGED lgOthers

\* prev = h->prev; next = h->next; if (prev) prev->next = next
LgUnlink(t) ==
  /\ lg_pc[t] = "unlink"
  /\ LET prev == lg_hdr[lg_call[t].h].prev
         next == lg_hdr[lg_call[t].h].next
     IN  /\ lg_call' = [lg_call EXCEPT ![t].prev = prev, ![t].next = next]
         /\ lg_hdr' = IF prev # 0
                      THEN [lg_hdr EXCEPT ![prev].next = next]
                      ELSE lg_hdr
  /\ lg_pc' = [lg_pc EXCEPT ![t] = "unlink_next"]
  /\ UNCHANGED <<lg_mapped, lg_list_, lg_mutex_, lg_owned, lg_linked, lg_ops>>
  /\ UNCHANGED lgOthers

\* if (next) next->prev = prev
LgUnlinkNext(t) ==
  /\ lg_pc[t] = "unlink_next"
  /\ lg_hdr' = IF lg_call[t].next # 0
               THEN [lg_hdr EXCEPT ![lg_call[t].next].prev = lg_call[t].prev]
               ELSE lg_hdr
  /\ lg_pc' = [lg_pc EXCEPT ![t] = "unlink_head"]
  /\ UNCHANGED <<lg_mapped, lg_list_, lg_mutex_, lg_call, lg_owned, lg_linked, lg_ops>>
  /\ UNCHANGED lgOthers

\* if (h == list_) list_ = next, and the lock is released
LgUnlinkHead(t) ==
  /\ lg_pc[t] = "unlink_head"
  /\ lg_list_' = IF lg_call[t].h = lg_list_ THEN lg_call[t].next ELSE lg_list_
  /\ lg_mutex_' = 0
  /\ lg_linked' = lg_linked \ {lg_call[t].res}
  /\ lg_pc' = [lg_pc EXCEPT ![t] = "unmap"]
  /\ UNCHANGED <<lg_mapped, lg_hdr, lg_call, lg_owned, lg_ops>>
  /\ UNCHANGED lgOthers

\* UnmapOrDie(h->map_beg, h->map_size)
LgUnmap(t) ==
  /\ lg_pc[t] = "unmap"
  /\ LET h == lg_hdr[lg_call[t].h]
         m == [beg |-> h.map_beg, size |-> h.map_size]
     IN  /\ lg_mapped' = lg_mapped \ {m}
         /\ lg_hdr' = [a \in LgPageAddrs |->
                         IF a \in LgPagesOf(m) THEN ZeroHeader ELSE lg_hdr[a]]
  /\ lg_call' = [lg_call EXCEPT ![t] = NoLgCall]
  /\ lg_pc' = [lg_pc EXCEPT ![t] = "idle"]
  /\ UNCHANGED <<lg_list_, lg_mutex_, lg_owned, lg_linked, lg_ops>>
  /\ UNCHANGED lgOthers

\* PointerIsMine(p): the fast check and the scan under the lock
LgPointerIsMine(t, p) ==
  /\ lg_pc[t] = "idle"
  /\ lg_ops < MaxLargeOps
  /\ p % kPageSize = 0 => LgLockFree
  /\ lg_call' = [lg_call EXCEPT ![t] =
                   [NoLgCall EXCEPT !.op = "PointerIsMine", !.res = p,
                                    !.mine = LgPointerIsMineOf(p),
                                    !.live = p \in lg_linked]]
  /\ lg_pc' = [lg_pc EXCEPT ![t] = "answered"]
  /\ lg_ops' = lg_ops + 1
  /\ UNCHANGED <<lg_mapped, lg_hdr, lg_list_, lg_mutex_, lg_owned, lg_linked>>
  /\ UNCHANGED lgOthers

\* the caller of PointerIsMine goes on
LgAnswered(t) ==
  /\ lg_pc[t] = "answered"
  /\ lg_call' = [lg_call EXCEPT ![t] = NoLgCall]
  /\ lg_pc' = [lg_pc EXCEPT ![t] = "idle"]
  /\ UNCHANGED <<lg_mapped, lg_hdr, lg_list_, lg_mutex_, lg_owned, lg_linked, lg_ops>>
  /\ UNCHANGED lgOthers

LgNext ==
  \E t \in LargeThreads :
    \/ \E size \in LgSizes, alignment \in LgAlignments, map_beg \in LgPageAddrs :
         LgAllocate(t, size, alignment, map_beg)
    \/ LgLock(t)
    \/ LgLink(t)
    \/ LgLinkPrev(t)
    \/ LgLinkHead(t)
    \/ LgAllocated(t)
    \/ \E p \in LgPageAddrs : LgDeallocate(t, p)
    \/ LgUnlink(t)
    \/ LgUnlinkNext(t)
    \/ LgUnlinkHead(t)
    \/ LgUnmap(t)
    \/ \E p \in LgPointers : LgPointerIsMine(t, p)
    \/ LgAnswered(t)

SpecLarge == LgInit /\ [][LgNext]_vars

\* the user pointers of the headers of the list
LgListUsers == {LgGetUser(LgList[i]) : i \in 1 .. Len(LgList)}

\* C21: whenever the lock is free, the list holds exactly the headers of
\* the allocations linked and not yet unlinked, each once, the first with
\* prev = 0 and each other with prev = its predecessor; every pointer a
\* caller holds is on the list and every header of the list lies in a live
\* mapping; PointerIsMine(p) is true exactly for the user pointers of these
\* allocations, and an answer PointerIsMine gave was right when given
C21_ListIsLiveAllocations ==
  /\ lg_mutex_ = 0 =>
       /\ Len(LgList) <= LgNumPages
       /\ \A i, j \in 1 .. Len(LgList) : i # j => LgList[i] # LgList[j]
       /\ LgListUsers = lg_linked
       /\ \A i \in 1 .. Len(LgList) :
            lg_hdr[LgList[i]].prev = IF i = 1 THEN 0 ELSE LgList[i - 1]
       /\ \A t \in LargeThreads : lg_owned[t] \subseteq LgListUsers
       /\ \A i \in 1 .. Len(LgList) : LgList[i] \in LgMappedPages
       /\ \A p \in LgPointers : LgPointerIsMineOf(p) <=> p \in lg_linked
  /\ \A t \in LargeThreads :
       lg_pc[t] = "answered" => lg_call[t].mine = lg_call[t].live

\* one thread has unlinked an allocation that was not the head of the
\* list and has not yet unmapped it, while another allocation is on the
\* list and a third call is in progress or done
C21_Witness ==
  /\ lg_mutex_ = 0
  /\ Len(LgList) = 1
  /\ \E t \in LargeThreads : lg_pc[t] = "unmap" /\ lg_call[t].prev # 0

(***************************************************************************)
(* Specification of the fake stack under signals: the thread calls         *)
(* __asan_stack_malloc / __asan_stack_free / HandleNoReturn, and a signal  *)
(* handler that makes the same calls may interrupt it at any statement of  *)
(* Allocate.                                                               *)
(***************************************************************************)
sgOthers == <<scVars, hpVars, rpVars, alVars, fkVars, psVars, rgVars, cbVars, clVars, lcVars, mdVars, lgVars, tlVars, qrVars, diVars>>

SgInit ==
  /\ sg_flags = [sl \in FkSlots |-> 0]
  /\ sg_real_stack = [sl \in FkSlots |-> 0]
  /\ sg_hint_position = [c \in FkClasses |-> 0]
  /\ sg_needs_gc = FALSE
  /\ sg_mask = {}
  /\ sg_stack = <<>>
  /\ sg_hstack = <<>>
  /\ sg_pc = "idle"
  /\ sg_loc = NoSgLoc
  /\ sg_in_handler = FALSE
  /\ sg_held = {}
  /\ sg_twice = FALSE
  /\ sg_dead = FALSE
  /\ sg_ops = 0
  /\ ScParked
  /\ HpParked
  /\ RpParked
  /\ AlParked
  /\ FkParked
  /\ PsParked
  /\ RgParked
  /\ CbParked
  /\ ClParked
  /\ LcParked
  /\ MdParked
  /\ LgParked
  /\ TlParked
  /\ QrParked
  /\ DiParked

\* the real stack pointer of the thread's next instrumented frame; the
\* frames of the thread are two units apart
SgRealStack == SgStackTop - 2 * (Len(sg_stack) + 1)

\* the real stack pointer of the handler's next instrumented frame: below
\* the frame the signal interrupted
SgHandlerRealStack ==
  (IF sg_pc # "idle" THEN SgRealStack ELSE SgRealStack + 2)
    - 1 - Len(sg_hstack)

\* GC(real_stack): the flags it leaves, over the classes of the mask
SgFlagsAfterGC(real_stack) ==
  [sl \in FkSlots |->
     IF sl[1] \in sg_mask /\ sg_flags[sl] # 0
        /\ sg_real_stack[sl] < real_stack
     THEN 0 ELSE sg_flags[sl]]

\* the slots a GC released
SgCollected(flags) == {sl \in FkSlots : sg_flags[sl] # flags[sl]}

\* Allocate up to its loop, on the thread: CHECK_LT(class_id, ..), GC if
\* needs_gc_, i = 0
SgAllocate(class_id) ==
  /\ ~sg_dead /\ ~sg_in_handler
  /\ sg_pc = "idle"
  /\ sg_ops < MaxSgOps
  /\ Len(sg_stack) < MaxSgDepth
  /\ sg_ops' = sg_ops + 1
  /\ LET flags == IF sg_needs_gc THEN SgFlagsAfterGC(SgRealStack)
                  ELSE sg_flags
     IN  /\ sg_flags' = flags
         /\ sg_held' = sg_held \ SgCollected(flags)
  /\ sg_needs_gc' = FALSE
  /\ sg_loc' = [class_id |-> class_id, i |-> 0, pos |-> 0,
                real_stack |-> SgRealStack]
  /\ sg_pc' = "scan"
  /\ UNCHANGED <<sg_real_stack, sg_hint_position, sg_mask, sg_stack,
                 sg_hstack, sg_in_handler, sg_twice, sg_dead>>
  /\ UNCHANGED sgOthers

\* one iteration of the loop up to the exchange: i < num_iter,
\* pos = ModuloNumberOfFrames(hint_position++), if (flags[pos]) continue;
\* CHECK(0) after the loop
SgScan ==
  /\ ~sg_dead /\ ~sg_in_handler
  /\ sg_pc = "scan"
  /\ LET c == sg_loc.class_id
         pos == ModuloNumberOfFrames(c, sg_hint_position[c])
     IN  IF sg_loc.i >= NumberOfFrames(c)
         THEN /\ sg_dead' = TRUE
              /\ UNCHANGED <<sg_hint_position, sg_loc, sg_pc>>
         ELSE /\ sg_hint_position' = [sg_hint_position EXCEPT ![c] = @ + 1]
              /\ sg_loc' = [sg_loc EXCEPT !.pos = pos, !.i = @ + 1]
              /\ sg_pc' = IF sg_flags[<<c, pos>>] # 0 THEN "scan"
                          ELSE "exchange"
              /\ UNCHANGED sg_dead
  /\ UNCHANGED <<sg_flags, sg_real_stack, sg_needs_gc, sg_mask, sg_stack,
                 sg_hstack, sg_in_handler, sg_held, sg_twice, sg_ops>>
  /\ UNCHANGED sgOthers

\* 0 == atomic_exchange(&flags[pos], 1): the slot is this call's
SgExchanged(old) == old = 0

\* atomic_exchange(&flags[pos], 1, memory_order_relaxed)
SgExchange ==
  /\ ~sg_dead /\ ~sg_in_handler
  /\ sg_pc = "exchange"
  /\ LET sl == <<sg_loc.class_id, sg_loc.pos>>
     IN  /\ sg_flags' = [sg_flags EXCEPT ![sl] = 1]
         /\ sg_pc' = IF SgExchanged(sg_flags[sl]) THEN "claimed" ELSE "scan"
  /\ UNCHANGED <<sg_real_stack, sg_hint_position, sg_needs_gc, sg_mask,
                 sg_stack, sg_hstack, sg_loc, sg_in_handler, sg_held,
                 sg_twice, sg_dead, sg_ops>>
  /\ UNCHANGED sgOthers

\* res->real_stack = real_stack; res->class_id = class_id; the mask is
\* updated; return res
SgReturn ==
  /\ ~sg_dead /\ ~sg_in_handler
  /\ sg_pc = "claimed"
  /\ LET sl == <<sg_loc.class_id, sg_loc.pos>>
     IN  /\ sg_real_stack' = [sg_real_stack EXCEPT ![sl] = sg_loc.real_stack]
         /\ sg_mask' = sg_mask \cup {sg_loc.class_id}
         /\ sg_stack' = Append(sg_stack, sl)
         /\ sg_twice' = (sg_twice \/ sl \in sg_held)
         /\ sg_held' = sg_held \cup {sl}
  /\ sg_loc' = NoSgLoc
  /\ sg_pc' = "idle"
  /\ UNCHANGED <<sg_flags, sg_hint_position, sg_needs_gc, sg_hstack,
                 sg_in_handler, sg_dead, sg_ops>>
  /\ UNCHANGED sgOthers

\* Deallocate of the innermost frame of the thread (handler = FALSE) or of
\* the handler: CHECK_EQ(flags[pos], 1); flags[pos] = 0
SgDeallocate(handler) ==
  /\ ~sg_dead
  /\ sg_in_handler = handler
  /\ sg_pc = "idle" \/ handler
  /\ sg_ops < MaxSgOps
  /\ sg_ops' = sg_ops + 1
  /\ LET stack == IF handler THEN sg_hstack ELSE sg_stack
         rest == SubSeq(stack, 1, Len(stack) - 1)
     IN  /\ stack # <<>>
         /\ sg_stack' = IF handler THEN sg_stack ELSE rest
         /\ sg_hstack' = IF handler THEN rest ELSE sg_hstack
         /\ IF sg_flags[stack[Len(stack)]] # 1
            THEN /\ sg_dead' = TRUE
                 /\ UNCHANGED <<sg_flags, sg_held>>
            ELSE /\ sg_flags' = [sg_flags EXCEPT ![stack[Len(stack)]] = 0]
                 /\ sg_held' = sg_held \ {stack[Len(stack)]}
                 /\ UNCHANGED sg_dead
  /\ UNCHANGED <<sg_real_stack, sg_hint_position, sg_needs_gc, sg_mask,
                 sg_pc, sg_loc, sg_in_handler, sg_twice>>
  /\ UNCHANGED sgOthers

\* HandleNoReturn before a longjmp or throw back to the frame at depth
\* keep, on the thread or inside the handler: needs_gc_ = true, the frames
\* above are left without Deallocate
SgHandleNoReturn(handler, keep) ==
  /\ ~sg_dead
  /\ sg_in_handler = handler
  /\ sg_pc = "idle" \/ handler
  /\ sg_ops < MaxSgOps
  /\ sg_ops' = sg_ops + 1
  /\ keep <= Len(IF handler THEN sg_hstack ELSE sg_stack)
  /\ sg_needs_gc' = TRUE
  /\ sg_stack' = IF handler THEN sg_stack ELSE SubSeq(sg_stack, 1, keep)
  /\ sg_hstack' = IF handler THEN SubSeq(sg_hstack, 1, keep) ELSE sg_hstack
  /\ UNCHANGED <<sg_flags, sg_real_stack, sg_hint_position, sg_mask, sg_pc,
                 sg_loc, sg_in_handler, sg_held, sg_twice, sg_dead>>
  /\ UNCHANGED sgOthers

\* a signal is delivered: the handler starts at whatever statement the
\* thread has reached
SgSignal ==
  /\ ~sg_dead /\ ~sg_in_handler
  /\ sg_ops < MaxSgOps
  /\ sg_in_handler' = TRUE
  /\ UNCHANGED <<sg_flags, sg_real_stack, sg_hint_position, sg_needs_gc,
                 sg_mask, sg_stack, sg_hstack, sg_pc, sg_loc, sg_held,
                 sg_twice, sg_dead, sg_ops>>
  /\ UNCHANGED sgOthers

\* Allocate inside the handler, which no further signal interrupts: GC if
\* needs_gc_, the loop, the exchange, the stores
SgHandlerAllocate(class_id) ==
  /\ ~sg_dead /\ sg_in_handler
  /\ sg_ops < MaxSgOps
  /\ Len(sg_hstack) < MaxSgHandlerDepth
  /\ sg_ops' = sg_ops + 1
  /\ LET real_stack == SgHandlerRealStack
         flags == IF sg_needs_gc THEN SgFlagsAfterGC(real_stack)
                  ELSE sg_flags
         i == FkScan(flags, class_id, sg_hint_position[class_id], 0)
         pos == ModuloNumberOfFrames(class_id,
                                     sg_hint_position[class_id] + i)
         sl == <<class_id, pos>>
     IN  /\ sg_needs_gc' = FALSE
         /\ IF i >= NumberOfFrames(class_id)
            THEN /\ sg_dead' = TRUE
                 /\ sg_flags' = flags
                 /\ sg_hint_position' = [sg_hint_position EXCEPT
                                           ![class_id] = @ + i]
                 /\ sg_held' = sg_held \ SgCollected(flags)
                 /\ UNCHANGED <<sg_real_stack, sg_mask, sg_hstack, sg_twice>>
            ELSE /\ sg_flags' = [flags EXCEPT ![sl] = 1]
                 /\ sg_hint_position' = [sg_hint_position EXCEPT
                                           ![class_id] = @ + i + 1]
                 /\ sg_real_stack' = [sg_real_stack EXCEPT ![sl] = real_stack]
                 /\ sg_mask' = sg_mask \cup {class_id}
                 /\ sg_hstack' = Append(sg_hstack, sl)
                 /\ sg_twice' = (sg_twice
                                   \/ sl \in sg_held \ SgCollected(flags))
                 /\ sg_held' = (sg_held \ SgCollected(flags)) \cup {sl}
                 /\ UNCHANGED sg_dead
  /\ UNCHANGED <<sg_stack, sg_pc, sg_loc, sg_in_handler>>
  /\ UNCHANGED sgOthers

\* the handler returns and the thread goes on where it was interrupted
SgSigReturn ==
  /\ ~sg_dead /\ sg_in_handler
  /\ sg_hstack = <<>>
  /\ sg_in_handler' = FALSE
  /\ UNCHANGED <<sg_flags, sg_real_stack, sg_hint_position, sg_needs_gc,
                 sg_mask, sg_stack, sg_hstack, sg_pc, sg_loc, sg_held,
                 sg_twice, sg_dead, sg_ops>>
  /\ UNCHANGED sgOthers

SgNext ==
  \/ \E c \in FkClasses : SgAllocate(c)
  \/ SgScan
  \/ SgExchange
  \/ SgReturn
  \/ \E handler \in BOOLEAN : SgDeallocate(handler)
  \/ \E handler \in BOOLEAN, keep \in 0 .. MaxSgDepth :
       SgHandleNoReturn(handler, keep)
  \/ SgSignal
  \/ \E c \in FkClasses : SgHandlerAllocate(c)
  \/ SgSigReturn

SpecSignal == SgInit /\ [][SgNext]_vars

\* C22: an Allocate returns a slot only after an exchange that found its
\* flag clear, and no Allocate, on the thread or in a signal handler that
\* interrupted Allocate, returns a slot that an earlier Allocate returned
\* and that neither Deallocate nor GC has released since
C22_SlotReturnedOnce ==
  /\ sg_pc = "claimed" => sg_loc.i >= 1
  /\ ~sg_twice

(***************************************************************************)
(* Specification of the malloc replacement library: the threads of the     *)
(* application call malloc and free, which pass &cache, the one static     *)
(* cache, to the allocator.  The cache has no lock, so its statements      *)
(* interleave; the Region's free list is touched under the Region's lock.  *)
(***************************************************************************)
tlOthers == <<scVars, hpVars, rpVars, alVars, fkVars, psVars, rgVars, cbVars, clVars, lcVars, mdVars, lgVars, sgVars, qrVars, diVars>>

TlInit ==
  /\ tl_free_list = <<>>
  /\ tl_carved = 0
  /\ tl_cache = <<>>
  /\ tl_pc = [t \in TestlibThreads |-> "idle"]
  /\ tl_res = [t \in TestlibThreads |-> 0]
  /\ tl_owned = [t \in TestlibThreads |-> {}]
  /\ tl_users = {}
  /\ tl_dead = FALSE
  /\ tl_ops = 0
  /\ ScParked
  /\ HpParked
  /\ RpParked
  /\ AlParked
  /\ FkParked
  /\ PsParked
  /\ RgParked
  /\ CbParked
  /\ ClParked
  /\ LcParked
  /\ MdParked
  /\ LgParked
  /\ SgParked
  /\ QrParked
  /\ DiParked

\* malloc(size) -> allocator.Allocate(&cache, size, 8) ->
\* cache.Allocate(primary, class_id) up to 'if (free_list->empty())'
TlMalloc(t) ==
  /\ ~tl_dead
  /\ tl_pc[t] = "idle"
  /\ tl_ops < MaxTestlibOps
  /\ tl_ops' = tl_ops + 1
  /\ tl_users' = tl_users \cup {t}
  /\ tl_pc' = [tl_pc EXCEPT ![t] = IF tl_cache = <<>> THEN "bulk"
                                   ELSE "front"]
  /\ UNCHANGED <<tl_free_list, tl_carved, tl_cache, tl_res, tl_owned,
                 tl_dead>>
  /\ UNCHANGED tlOthers

\* allocator->BulkAllocate(class_id, free_list) under the Region's lock:
\* PopulateFreeList if the Region's list is empty, then BulkMove, whose
\* CHECK(allocate_to->empty()) fails if the cache was filled meanwhile
TlBulkAllocate(t) ==
  /\ ~tl_dead
  /\ tl_pc[t] = "bulk"
  /\ LET refill == tl_free_list = <<>>
         list == IF refill
                 THEN Populated(tl_carved * kClassSize,
                                tl_carved * kClassSize + kPopulateSize,
                                <<>>)
                 ELSE tl_free_list
         m == BulkMove(MaxCached(CompactSizeClassMap, kClassId), list)
     IN  /\ tl_carved' = IF refill THEN tl_carved + Len(list) ELSE tl_carved
         /\ IF tl_cache # <<>>
            THEN /\ tl_dead' = TRUE
                 /\ tl_free_list' = list
                 /\ UNCHANGED <<tl_cache, tl_pc>>
            ELSE /\ tl_free_list' = m.from
                 /\ tl_cache' = m.to
                 /\ tl_pc' = [tl_pc EXCEPT ![t] = "front"]
                 /\ UNCHANGED tl_dead
  /\ tl_users' = tl_users \cup {t}
  /\ UNCHANGED <<tl_res, tl_owned, tl_ops>>
  /\ UNCHANGED tlOthers

\* CHECK(!free_list->empty()); void *res = free_list->front()
TlFront(t) ==
  /\ ~tl_dead
  /\ tl_pc[t] = "front"
  /\ IF tl_cache = <<>>
     THEN /\ tl_dead' = TRUE
          /\ UNCHANGED <<tl_res, tl_pc>>
     ELSE /\ tl_res' = [tl_res EXCEPT ![t] = Head(tl_cache)]
          /\ tl_pc' = [tl_pc EXCEPT ![t] = "pop"]
          /\ UNCHANGED tl_dead
  /\ tl_users' = tl_users \cup {t}
  /\ UNCHANGED <<tl_free_list, tl_carved, tl_cache, tl_owned, tl_ops>>
  /\ UNCHANGED tlOthers

\* free_list->pop_front(); return res
TlPopFront(t) ==
  /\ ~tl_dead
  /\ tl_pc[t] = "pop"
  /\ IF tl_cache = <<>>
     THEN /\ tl_dead' = TRUE
          /\ UNCHANGED <<tl_cache, tl_owned, tl_pc>>
     ELSE /\ tl_cache' = Tail(tl_cache)
          /\ tl_owned' = [tl_owned EXCEPT ![t] = @ \cup {tl_res[t]}]
          /\ tl_pc' = [tl_pc EXCEPT ![t] = "idle"]
          /\ UNCHANGED tl_dead
  /\ tl_users' = tl_users \cup {t}
  /\ UNCHANGED <<tl_free_list, tl_carved, tl_res, tl_ops>>
  /\ UNCHANGED tlOthers

\* free(p) -> allocator.Deallocate(&cache, p) -> cache.Deallocate: the
\* push and the test of the threshold
TlFree(t, p) ==
  /\ ~tl_dead
  /\ tl_pc[t] = "idle"
  /\ tl_ops < MaxTestlibOps
  /\ p \in tl_owned[t]
  /\ tl_ops' = tl_ops + 1
  /\ tl_owned' = [tl_owned EXCEPT ![t] = @ \ {p}]
  /\ tl_cache' = <<p>> \o tl_cache
  /\ tl_pc' = [tl_pc EXCEPT ![t] =
       IF NeedsDrain(Len(tl_cache'), kClassId) THEN "drain" ELSE "idle"]
  /\ tl_users' = tl_users \cup {t}
  /\ UNCHANGED <<tl_free_list, tl_carved, tl_res, tl_dead>>
  /\ UNCHANGED tlOthers

\* DrainHalf: half of the cache goes to the Region's free list
TlDrainHalf(t) ==
  /\ ~tl_dead
  /\ tl_pc[t] = "drain"
  /\ LET d == DrainHalf(tl_cache)
     IN  /\ tl_cache' = d.cache
         /\ tl_free_list' = d.half \o tl_free_list
  /\ tl_pc' = [tl_pc EXCEPT ![t] = "idle"]
  /\ tl_users' = tl_users \cup {t}
  /\ UNCHANGED <<tl_carved, tl_res, tl_owned, tl_dead, tl_ops>>
  /\ UNCHANGED tlOthers

TlNext ==
  \E t \in TestlibThreads :
    \/ TlMalloc(t)
    \/ TlBulkAllocate(t)
    \/ TlFront(t)
    \/ TlPopFront(t)
    \/ \E p \in 0 .. tl_carved - 1 : TlFree(t, p)
    \/ TlDrainHalf(t)

SpecTestlib == TlInit /\ [][TlNext]_vars

\* C26: a local cache is read and modified by one thread only, the one
\* that owns it
C26_CacheOfOneThread ==
  Cardinality(tl_users) <= 1

(***************************************************************************)
(* Specification of the quarantine: threads Put freed chunks and Drain;    *)
(* the global queue is touched under its lock.                             *)
(***************************************************************************)
qrOthers == <<scVars, hpVars, rpVars, alVars, fkVars, psVars, rgVars, cbVars, clVars, lcVars, mdVars, lgVars, sgVars, tlVars, diVars>>

QrInit ==
  /\ qr_cap \in {SlotSize, 2 * SlotSize}
  /\ qr_budget \in {2 * SlotSize, 3 * SlotSize}
  /\ qr_state = [c \in QuarantineChunks |-> "Allocated"]
  /\ qr_batch = [t \in QuarantineThreads |-> <<>>]
  /\ qr_global = <<>>
  /\ qr_mutex = 0
  /\ qr_pc = [t \in QuarantineThreads |-> "idle"]
  /\ qr_ops = 0
  /\ ScParked
  /\ HpParked
  /\ RpParked
  /\ AlParked
  /\ FkParked
  /\ PsParked
  /\ RgParked
  /\ CbParked
  /\ ClParked
  /\ LcParked
  /\ MdParked
  /\ LgParked
  /\ SgParked
  /\ TlParked
  /\ DiParked

\* Put(chunk) by the thread that frees it: the chunk is appended to the
\* caller's batch; a batch that exceeds the cap is to be spliced
QrPut(t, c) ==
  /\ qr_pc[t] = "idle"
  /\ qr_ops < MaxQuarantineOps
  /\ qr_state[c] = "Allocated"
  /\ qr_ops' = qr_ops + 1
  /\ qr_state' = [qr_state EXCEPT ![c] = "Quarantined"]
  /\ qr_batch' = [qr_batch EXCEPT ![t] = Append(@, c)]
  /\ qr_pc' = [qr_pc EXCEPT ![t] =
       IF QuarantineBytes(qr_batch'[t]) > qr_cap THEN "splice" ELSE "idle"]
  /\ UNCHANGED <<qr_cap, qr_budget, qr_global, qr_mutex>>
  /\ UNCHANGED qrOthers

\* Drain() at thread exit: the remaining batch is to be spliced
QrDrain(t) ==
  /\ qr_pc[t] = "idle"
  /\ qr_ops < MaxQuarantineOps
  /\ qr_batch[t] # <<>>
  /\ qr_ops' = qr_ops + 1
  /\ qr_pc' = [qr_pc EXCEPT ![t] = "splice"]
  /\ UNCHANGED <<qr_cap, qr_budget, qr_state, qr_batch, qr_global, qr_mutex>>
  /\ UNCHANGED qrOthers

\* the lock of the global queue is taken
QrLock(t) ==
  /\ qr_pc[t] = "splice"
  /\ qr_mutex = 0
  /\ qr_mutex' = t
  /\ qr_pc' = [qr_pc EXCEPT ![t] = "locked"]
  /\ UNCHANGED <<qr_cap, qr_budget, qr_state, qr_batch, qr_global, qr_ops>>
  /\ UNCHANGED qrOthers

\* slip: the batch is copied to the global queue and kept
QrSpliced_KeepsBatch(global, batch) ==
  [global |-> global \o batch, batch |-> batch]

\* the batch is spliced wholesale into the global queue
QrSpliced(global, batch) ==
  [global |-> global \o batch, batch |-> <<>>]

\* the splice, under the lock
QrSplice(t) ==
  /\ qr_pc[t] = "locked"
  /\ LET s == QrSpliced(qr_global, qr_batch[t])
     IN  /\ qr_global' = s.global
         /\ qr_batch' = [qr_batch EXCEPT ![t] = s.batch]
  /\ qr_pc' = [qr_pc EXCEPT ![t] = "evict"]
  /\ UNCHANGED <<qr_cap, qr_budget, qr_state, qr_mutex, qr_ops>>
  /\ UNCHANGED qrOthers

\* slip: nothing is ever evicted
QrOverBudget_Never(global) == FALSE

\* the global queue exceeds its byte budget
QrOverBudget(global) == QuarantineBytes(global) > qr_budget

\* while the global queue exceeds its budget its oldest entry is evicted
\* and handed to CombinedAllocator.Deallocate; then the lock is released
QrEvict(t) ==
  /\ qr_pc[t] = "evict"
  /\ IF QrOverBudget(qr_global)
     THEN /\ qr_global' = Tail(qr_global)
          /\ qr_state' = [qr_state EXCEPT ![Head(qr_global)] = "Recycled"]
          /\ UNCHANGED <<qr_mutex, qr_pc>>
     ELSE /\ qr_mutex' = 0
          /\ qr_pc' = [qr_pc EXCEPT ![t] = "idle"]
          /\ UNCHANGED <<qr_global, qr_state>>
  /\ UNCHANGED <<qr_cap, qr_budget, qr_batch, qr_ops>>
  /\ UNCHANGED qrOthers

QrNext ==
  \E t \in QuarantineThreads :
    \/ \E c \in QuarantineChunks : QrPut(t, c)
    \/ QrDrain(t)
    \/ QrLock(t)
    \/ QrSplice(t)
    \/ QrEvict(t)

SpecQuarantine == QrInit /\ [][QrNext]_vars

\* the number of containers' places that hold chunk c
QrPlaces(c) ==
  Occurrences(qr_global, c)
    + Cardinality({<<t, i>> \in QuarantineThreads \X (1 .. NumQuarantineChunks) :
                     i <= Len(qr_batch[t]) /\ qr_batch[t][i] = c})

\* the bytes held in all containers
QrTotalBytes ==
  QuarantineBytes(qr_global)
    + Cardinality({<<t, i>> \in QuarantineThreads \X (1 .. NumQuarantineChunks) :
                     i <= Len(qr_batch[t])}) * SlotSize

\* C27: at every instant, including while a batch is being spliced and
\* while Drain runs, each quarantined chunk is in exactly one container (a
\* thread's batch or the global queue), once; a chunk that is not
\* quarantined (not yet freed, or evicted) is in none
C27_OneContainer ==
  \A c \in DOMAIN qr_state :
    QrPlaces(c) = IF qr_state[c] = "Quarantined" THEN 1 ELSE 0

\* one thread is evicting after its splice while the other thread holds a
\* chunk in its batch and a chunk has been evicted
C27_Witness ==
  /\ \E t \in DOMAIN qr_pc : qr_pc[t] = "evict"
  /\ \E t \in DOMAIN qr_pc : qr_pc[t] # "evict" /\ qr_batch[t] # <<>>
  /\ \E c \in DOMAIN qr_state : qr_state[c] = "Recycled"
  /\ qr_global # <<>>

\* C28: after every completed Put, splice or Drain the total number of
\* bytes held in quarantine, in the batches and the global queue, is at
\* most the budget
C28_TotalWithinBudget ==
  (\A t \in DOMAIN qr_pc : qr_pc[t] = "idle") =>
    QrTotalBytes <= qr_budget

\* C28 (amended): when no splice is in progress the global queue is within
\* its budget; a batch is within the cap after every completed Put; the
\* total is at most the budget plus one cap per thread
C28_GlobalWithinBudget ==
  /\ qr_mutex = 0 => QuarantineBytes(qr_global) <= qr_budget
  /\ \A t \in DOMAIN qr_pc :
       qr_pc[t] = "idle" => QuarantineBytes(qr_batch[t]) <= qr_cap
  /\ (\A t \in DOMAIN qr_pc : qr_pc[t] = "idle") =>
       QrTotalBytes <= qr_budget + NumQuarantineThreads * qr_cap

\* every thread is idle, the global queue is full after an eviction and a
\* batch holds a chunk: more bytes are held than the budget
C28_Witness ==
  /\ \A t \in DOMAIN qr_pc : qr_pc[t] = "idle"
  /\ qr_pc # <<>>
  /\ \E c \in DOMAIN qr_state : qr_state[c] = "Recycled"
  /\ QuarantineBytes(qr_global) = qr_budget
  /\ QrTotalBytes > qr_budget

(***************************************************************************)
(* Specification of Die: threads call it directly or through CheckFailed;  *)
(* the flags and the death callback are set before.                        *)
(***************************************************************************)
diOthers == <<scVars, hpVars, rpVars, alVars, fkVars, psVars, rgVars, cbVars, clVars, lcVars, mdVars, lgVars, sgVars, tlVars, qrVars>>

DiInit ==
  /\ di_num_calls = 0
  /\ di_flags \in [unmap_shadow_on_exit : BOOLEAN,
                   abort_on_error : BOOLEAN,
                   death_callback : DeathCallbacks]
  /\ di_pc = [t \in DieThreads |-> "client"]
  /\ di_first = 0
  /\ di_reentered = {}
  /\ di_exited = "no"
  /\ ScParked
  /\ HpParked
  /\ RpParked
  /\ AlParked
  /\ FkParked
  /\ PsParked
  /\ RgParked
  /\ CbParked
  /\ ClParked
  /\ LcParked
  /\ MdParked
  /\ LgParked
  /\ SgParked
  /\ TlParked
  /\ QrParked

\* client code of thread t calls Die (RAW_CHECK, the end of a report), or
\* fails a CHECK and calls CheckFailed
DiCall(t, checked) ==
  /\ di_exited = "no"
  /\ di_pc[t] = "client"
  /\ di_pc' = [di_pc EXCEPT ![t] = IF checked THEN "check_failed" ELSE "enter"]
  /\ UNCHANGED <<di_num_calls, di_flags, di_first, di_reentered, di_exited>>
  /\ UNCHANGED diOthers

\* CheckFailed: the message, the stack, then ShowStatsAndAbort, i.e. Die
DiCheckFailed(t) ==
  /\ di_exited = "no"
  /\ di_pc[t] = "check_failed"
  /\ di_pc' = [di_pc EXCEPT ![t] = "enter"]
  /\ UNCHANGED <<di_num_calls, di_flags, di_first, di_reentered, di_exited>>
  /\ UNCHANGED diOthers

\* if (AtomicInc(&num_calls) > 1): the call is not the first one
DiSpins(ret) == ret > 1

\* the entry of Die: a call that is not the first runs while (1) { } and
\* takes no further step; the first call goes on (sleeping first if
\* FLAG_sleep_before_dying is set)
DiEnter(t) ==
  /\ di_exited = "no"
  /\ di_pc[t] = "enter"
  /\ LET r == AtomicInc(di_num_calls)
     IN  /\ di_num_calls' = r.val
         /\ IF DiSpins(r.ret)
            THEN /\ di_pc' = [di_pc EXCEPT ![t] = "spin"]
                 /\ UNCHANGED di_first
            ELSE /\ di_pc' = [di_pc EXCEPT ![t] = "unmap"]
                 /\ di_first' = IF di_first = 0 THEN t ELSE di_first
  /\ UNCHANGED <<di_flags, di_reentered, di_exited>>
  /\ UNCHANGED diOthers

\* if (FLAG_unmap_shadow_on_exit) UnmapOrDie(shadow): a munmap that fails
\* ends in CHECK("unable to unmap" && 0), i.e. CheckFailed
DiUnmap(t, unmapped) ==
  /\ di_exited = "no"
  /\ di_pc[t] = "unmap"
  /\ di_flags.unmap_shadow_on_exit \/ unmapped
  /\ IF di_flags.unmap_shadow_on_exit /\ ~unmapped
     THEN /\ di_pc' = [di_pc EXCEPT ![t] = "check_failed"]
          /\ di_reentered' = di_reentered \cup {t}
     ELSE /\ di_pc' = [di_pc EXCEPT ![t] = "callback"]
          /\ UNCHANGED di_reentered
  /\ UNCHANGED <<di_num_calls, di_flags, di_first, di_exited>>
  /\ UNCHANGED diOthers

\* if (death_callback) death_callback(): the callback returns, or it runs
\* into a failed check or an error report of its own, which calls Die
DiCallback(t) ==
  /\ di_exited = "no"
  /\ di_pc[t] = "callback"
  /\ IF di_flags.death_callback = "dies"
     THEN /\ di_pc' = [di_pc EXCEPT ![t] = "enter"]
          /\ di_reentered' = di_reentered \cup {t}
     ELSE /\ di_pc' = [di_pc EXCEPT ![t] = "exit"]
          /\ UNCHANGED di_reentered
  /\ UNCHANGED <<di_num_calls, di_flags, di_first, di_exited>>
  /\ UNCHANGED diOthers

\* if (FLAG_abort_on_error) Abort(); Exit(FLAG_exitcode): the process and
\* all its threads end
DiExit(t) ==
  /\ di_exited = "no"
  /\ di_pc[t] = "exit"
  /\ di_exited' = IF di_flags.abort_on_error THEN "abort" ELSE "exit"
  /\ UNCHANGED <<di_num_calls, di_flags, di_pc, di_first, di_reentered>>
  /\ UNCHANGED diOthers

\* the steps thread t takes once it has called Die or CheckFailed
DiStep(t) ==
  \/ DiCheckFailed(t)
  \/ DiEnter(t)
  \/ \E unmapped \in BOOLEAN : DiUnmap(t, unmapped)
  \/ DiCallback(t)
  \/ DiExit(t)

DiNext ==
  \E t \in DieThreads :
    \/ \E checked \in BOOLEAN : DiCall(t, checked)
    \/ DiStep(t)

SpecDie == DiInit /\ [][DiNext]_vars

\* every thread that is inside Die or CheckFailed is scheduled again and
\* again; whether client code calls Die is left open
SpecDieFair == SpecDie /\ \A t \in DieThreads : WF_vars(DiStep(t))

\* C30: after the first call of Die the process eventually exits, whoever
\* calls Die meanwhile
C30_DieLeadsToExit ==
  (di_num_calls >= 1) ~> (di_exited \in {"abort", "exit"})

(***************************************************************************)
(* Specification of the size-class map: the inputs are drawn in Init, the  *)
(* actions apply ClassID and Size as the allocator does.                   *)
(***************************************************************************)
scOthers == <<hpVars, rpVars, alVars, fkVars, psVars, rgVars, cbVars, clVars, lcVars, mdVars, lgVars, sgVars, tlVars, qrVars, diVars>>

ClassIds(m) == 0 .. (kNumClasses(m) - 1)

SizeInputs(m) ==
  { s \in 1 .. MaxDenseSize : s <= kMaxSize(m) }
  \cup { s \in { Size(m, c) + d : c \in ClassIds(m), d \in (0 - MaxDelta) .. MaxDelta } :
           s >= 1 /\ s <= kMaxSize(m) }

ScInit ==
  /\ sc_map \in {"Default", "Compact"}
  /\ sc_pc \in {"size_in", "class_in"}
  /\ sc_arg \in IF sc_pc = "size_in" THEN SizeInputs(MapNamed(sc_map))
                ELSE ClassIds(MapNamed(sc_map))
  /\ sc_class_id = 0
  /\ sc_size = 0
  /\ sc_class_id2 = 0
  /\ HpParked
  /\ RpParked
  /\ AlParked
  /\ FkParked
  /\ PsParked
  /\ RgParked
  /\ CbParked
  /\ ClParked
  /\ LcParked
  /\ MdParked
  /\ LgParked
  /\ SgParked
  /\ TlParked
  /\ QrParked
  /\ DiParked

\* the allocator's use of the map on a request: ClassID(size), then the
\* size of the chosen class, then that size classified again
ScClassify ==
  /\ sc_pc = "size_in"
  /\ sc_class_id' = ClassID(MapNamed(sc_map), sc_arg)
  /\ sc_size' = Size(MapNamed(sc_map), sc_class_id')
  /\ sc_class_id2' = ClassID(MapNamed(sc_map), sc_size')
  /\ sc_pc' = "classified"
  /\ UNCHANGED <<sc_map, sc_arg>>
  /\ UNCHANGED scOthers

\* Size(class_id) followed by ClassID of the result
ScSizeOf ==
  /\ sc_pc = "class_in"
  /\ sc_size' = Size(MapNamed(sc_map), sc_arg)
  /\ sc_class_id2' = ClassID(MapNamed(sc_map), sc_size')
  /\ sc_class_id' = sc_arg
  /\ sc_pc' = "sized"
  /\ UNCHANGED <<sc_map, sc_arg>>
  /\ UNCHANGED scOthers

ScNext == ScClassify \/ ScSizeOf

SpecSizeClass == ScInit /\ [][ScNext]_vars

\* C5: for every size s in [1, kMaxSize] of either map, Size(ClassID(s)) >= s
C5_ClassLargeEnough ==
  sc_pc = "classified" => sc_size >= sc_arg

\* a request strictly between two class sizes has been classified
C5_Witness ==
  /\ sc_pc = "classified"
  /\ sc_map = "Compact"
  /\ sc_arg = 4097
  /\ sc_size = 8192

\* C6: ClassID(Size(c)) = c for every class id c, hence
\* ClassID(Size(ClassID(s))) = ClassID(s) for every size s in [1, kMaxSize]
C6_ClassIdOfSize ==
  /\ sc_pc = "sized" => sc_class_id2 = sc_arg
  /\ sc_pc = "classified" => sc_class_id2 = sc_class_id

\* the last class of the default map has been sized and classified back
C6_Witness ==
  /\ sc_pc = "sized"
  /\ sc_map = "Default"
  /\ sc_arg = 255
  /\ sc_size = 2097152
  /\ sc_class_id2 = 255

====
